---- MODULE Spec2Model ----
(***************************************************************************)
(* Verification model of the vision-api batch engine:                      *)
(*   - rate.Limiter            (sliding-window limiter with re-validation) *)
(*   - vision.RateLimiter and vision.Client.DetectLabels                   *)
(*   - processor.VisionProcessor.ProcessBatch / worker / Process           *)
(*   - utils.TempFileManager                                               *)
(* Time is a discrete clock `now`; every time.Now() reads it.              *)
(***************************************************************************)
EXTENDS Integers, Sequences, FiniteSets, TLC

(* ---- bounds of the model ---- *)
MaxTime == 4
MaxRate == 2
MaxWindow == 2
NumCallers == 2
MaxCalls == 4
MaxDetectCalls == 3
MaxInputs == 2
MaxPool == 2
MaxRetriesBound == 36
MaxCount == 2
MaxTrackerOps == 2
MaxFinishCalls == 2
MaxRecords == 3
MaxResults == 2

\* the per-call timeout the client is configured with (timeout_seconds: 30),
\* in clock units of 30 seconds
Timeout == 1

\* time.Minute, in clock units of 30 seconds
Minute == 2

Callers == 1..NumCallers

\* the worker goroutines that share one vision.Client
Workers == {"w1", "w2"}

VARIABLES
    now,          \* the clock read by time.Now()
    ctxDone,      \* the context passed to the calls is cancelled
    rate,         \* Limiter.rate
    window,       \* Limiter.window
    requests,     \* Limiter.requests
    lpc,          \* per caller: position inside Limiter.Wait
    lwake,        \* per caller: instant at which time.After(delay) fires
    lcalls,       \* number of Wait calls started so far
    lslept,       \* per caller: the current Wait call has slept at least once
    maxWaitTime,  \* Limiter.maxWaitTime
    lpanic,       \* a call on the limiter (or its construction) panicked
    lgrants       \* history: instants, within the trailing window, at which a Wait call returned nil

limiterVars == <<rate, window, requests, lpc, lwake, lcalls, lslept, maxWaitTime, lpanic,
                 lgrants>>

VARIABLES
    rateLimit,      \* Client.options.RateLimit = RateLimiter.rateLimit
    maxRetries,     \* Client.options.MaxRetries
    initialBackoff, \* Client.options.InitialBackoff
    maxBackoff,     \* Client.options.MaxBackoff
    vwindow,        \* RateLimiter.window
    vrequests,      \* RateLimiter.requests
    dpc,            \* per caller: position inside DetectLabels / RateLimiter.Wait
    dlocalNow,      \* per caller: the local `now` of RateLimiter.Wait
    dwake,          \* per caller: instant at which the pending time.After fires
    dattempt,       \* per caller: the loop variable `attempt`
    dcalls,         \* number of DetectLabels calls started so far
    vgrants,        \* history: instants, within the trailing minute, at which RateLimiter.Wait returned nil
    vexecs,         \* history: instants, within the trailing minute, at which executeCommand was started
    dinvoked,       \* history, per caller: executeCommand invocations of the current DetectLabels call
    dfails,         \* history, per caller: invocations of the current call whose executeCommand returned an error
    derr,           \* per caller: the error the last DetectLabels call returned
    dstart          \* per caller: instant at which the running executeCommand was started

clientVars == <<rateLimit, maxRetries, initialBackoff, maxBackoff, vwindow, vrequests,
                dpc, dlocalNow, dwake, dattempt, dcalls, vgrants, vexecs, dinvoked, dfails, derr,
                dstart>>

VARIABLES
    inputs,          \* the []ProcessInput handed to ProcessBatch
    poolSize,        \* options.PoolSize
    deleteTempFiles, \* options.DeleteTempFiles
    mpc,             \* position of the goroutine that runs ProcessBatch
    jobs,            \* the jobs channel: queued inputs (by position in inputs)
    jobsClosed,      \* close(jobs) has run
    results,         \* the results channel: queued outputs
    resultsClosed,   \* close(results) has run
    wgCount,         \* the WaitGroup counter
    fidx,            \* feeder: position of the next input to enqueue
    fdone,           \* feeder: the goroutine has returned
    wpc,             \* per worker: position inside worker / Process
    wjob,            \* per worker: the job it holds (position in inputs), 0 if none
    wout,            \* per worker: the ProcessOutput that Process returned
    werr,            \* per worker: the error that Process returned ("" is nil)
    outputs,         \* the outputs slice of ProcessBatch
    retErr,          \* the error ProcessBatch returned ("" is nil)
    tmpFiles,        \* TempFileManager.files
    trackerCurrent,  \* what ProcessBatch last passed to tracker.Update
    processed,       \* history: per input, how many times Process was invoked on it
    perr,            \* history: per input, the error Process returned for it ("" is nil)
    cleanups,        \* history: number of tempManager.Cleanup calls
    psteps           \* history: per input, the pipeline steps run on it, in order

batchVars == <<inputs, poolSize, deleteTempFiles, mpc, jobs, jobsClosed, results,
               resultsClosed, wgCount, fidx, fdone, wpc, wjob, wout, werr, outputs,
               retErr, tmpFiles, trackerCurrent, processed, perr, cleanups, psteps,
               psteps>>

VARIABLES
    bInitial,   \* DetectLabels of a failing call: options.InitialBackoff, in nanoseconds
    bMax,       \* options.MaxBackoff, in nanoseconds
    bAttempt,   \* the loop variable `attempt`
    bDelay      \* the `delay` computed before the current attempt

backoffVars == <<bInitial, bMax, bAttempt, bDelay>>

VARIABLES
    totalArg,         \* the total passed to NewTracker
    tcurrent,         \* Tracker.current
    ttotal,           \* Tracker.total
    tfailed,          \* Tracker.failed
    tskipped,         \* Tracker.skipped
    tmu,              \* Tracker.mu: the goroutine holding it, "" when free
    tickerStopped,    \* ticker.Stop() has run
    tickPending,      \* a tick waits in ticker.C
    tdone,            \* the done channel is closed
    tpanic,           \* a goroutine panicked: the process has died
    rpc,              \* position of the updateDisplay goroutine
    fpc,              \* per Finish caller: position inside Finish
    finishCalls,      \* number of Finish calls started so far
    upc,              \* per Update caller: position inside Update
    uargs,            \* per Update caller: the arguments still to be stored
    tops,             \* number of Update / Increment calls started so far
    disp,             \* per displaying goroutine: position inside displayProgress / displayFinalStatus
    snap,             \* per displaying goroutine: the values loaded so far
    summaries,        \* history: number of final summaries written
    lineAfterSummary  \* history: a progress line was written after a final summary

trackerVars == <<totalArg, tcurrent, ttotal, tfailed, tskipped, tmu, tickerStopped,
                 tickPending, tdone, tpanic, rpc, fpc, finishCalls, upc, uargs, tops,
                 disp, snap, summaries, lineAfterSummary>>

VARIABLES
    records,          \* calculateStats: the parameter records
    stats,            \* calculateStats: the local stats
    sidx,             \* calculateStats: position of the range loop in records
    totalLabels,      \* calculateStats: the local totalLabels
    totalConfidence,  \* calculateStats: the local totalConfidence
    uniqueLabels,     \* calculateStats: the keys of the local uniqueLabels
    spc               \* position inside calculateStats

statsVars == <<records, stats, sidx, totalLabels, totalConfidence, uniqueLabels, spc>>

VARIABLES
    gresults,   \* generateDataset: the parameter results
    gformat,    \* Generator.options.Format
    gi,         \* position of the running loop (over results, then over records)
    grecords,   \* the dataset records built so far
    gwritten,   \* what has been written to the dataset file, one entry per record
    gpanic,     \* generateDataset panicked
    gpc         \* position inside generateDataset / GenerateDataset

datasetVars == <<gresults, gformat, gi, grecords, gwritten, gpanic, gpc>>

VARIABLE
    component   \* which of the two limiters the program at hand uses, where a
                \* specification covers both: "limiter" (rate.Limiter),
                \* "client" (vision.RateLimiter), "fair" (rate.Limiter
                \* with a clock that runs while a caller sleeps), "none"
                \* elsewhere

VARIABLE
    held        \* history: while a render holds Tracker.mu, the triples
                \* <<current, failed, skipped>> the counters have held since
                \* the render began

VARIABLES
    mu,         \* the limiter's sync.Mutex: the caller that holds it, 0 when unlocked
    mupc,       \* position of each caller inside Wait, statement by statement
    mubal,      \* per caller: its Lock calls minus its Unlock calls
    munow,      \* RateLimiter.Wait: the local `now` of each caller
    muwake,     \* when the time.After timer of each caller fires
    mufault     \* "sync: unlock of unlocked mutex" has been raised

mutexVars == <<mu, mupc, mubal, munow, muwake, mufault>>

\* further components modelled on their own
extraVars == <<datasetVars, component, held, mutexVars>>

\* the state of the components modelled on their own
otherVars == <<backoffVars, trackerVars, statsVars, extraVars>>

vars == <<now, ctxDone, limiterVars, clientVars, batchVars, otherVars>>

(* ---- helpers ---- *)
RECURSIVE SelectSeqKeep(_, _)
\* the in-place filter loop of tryAcquire: keeps, in order, the timestamps after cutoff
SelectSeqKeep(s, cutoff) ==
    IF s = <<>> THEN <<>>
    ELSE IF Head(s) > cutoff
         THEN <<Head(s)>> \o SelectSeqKeep(Tail(s), cutoff)
         ELSE SelectSeqKeep(Tail(s), cutoff)

\* number of entries of the history h lying in the window (t - w, t]
InWindow(h, t, w) == Cardinality({k \in DOMAIN h : h[k] > t - w /\ h[k] <= t})

(* ---- rate.Limiter ---- *)
\* mutant: expired timestamps are never removed
PruneNothing(reqs, t, w) == reqs
\* tryAcquire: "Remove expired timestamps": keeps t.After(now - window)
Prune(reqs, t, w) == SelectSeqKeep(reqs, t - w)

\* mutant: off-by-one admission check
AllowOffByOne(reqs, r) == Len(reqs) <= r
\* tryAcquire: "Check if we can make a request"
Allow(reqs, r) == Len(reqs) < r

\* tryAcquire: delay until the oldest entry leaves the window
Delay(reqs, t, w) == (reqs[1] + w) - t

\* NewLimiter followed by nothing: the state after construction
LimiterInit ==
    /\ rate \in 1..MaxRate
    /\ window \in 1..MaxWindow
    /\ requests = <<>>
    /\ lpc = [c \in Callers |-> "idle"]
    /\ lwake = [c \in Callers |-> 0]
    /\ lcalls = 0
    /\ lslept = [c \in Callers |-> FALSE]
    /\ maxWaitTime = window
    /\ lpanic = FALSE
    /\ lgrants = <<>>

\* the rates NewLimiter may be called with: it takes any int
RateArgs == -1..MaxRate

\* NewLimiter(rate, window) for any rate: make([]time.Time, 0, rate) panics
\* when rate is negative; nothing else looks at rate
NewLimiter ==
    /\ rate \in RateArgs
    /\ window \in 1..MaxWindow
    /\ requests = <<>>
    /\ lpc = [c \in Callers |-> "idle"]
    /\ lwake = [c \in Callers |-> 0]
    /\ lcalls = 0
    /\ lslept = [c \in Callers |-> FALSE]
    /\ maxWaitTime = window
    /\ lpanic = (rate < 0)
    /\ lgrants = <<>>

\* a limiter none of whose methods is ever called (used by the specifications
\* that are about another component)
LimiterIdle ==
    /\ rate = 1
    /\ window = 1
    /\ requests = <<>>
    /\ lpc = [c \in Callers |-> "idle"]
    /\ lwake = [c \in Callers |-> 0]
    /\ lcalls = 0
    /\ lslept = [c \in Callers |-> FALSE]
    /\ maxWaitTime = window
    /\ lpanic = FALSE
    /\ lgrants = <<>>

\* mutant: the cancelled call leaves its timestamp in the window
RequestsOnCancelRecorded(reqs, t) == Append(reqs, t)
\* `case <-ctx.Done(): return ctx.Err()` of Limiter.Wait and of
\* RateLimiter.Wait: the window is returned as it was
RequestsOnCancel(reqs, t) == reqs

\* a caller enters Limiter.Wait
LimiterCall(c) ==
    /\ ~lpanic
    /\ lpc[c] \in {"idle", "granted", "cancelled"}
    /\ lcalls < MaxCalls
    /\ lpc' = [lpc EXCEPT ![c] = "try"]
    /\ lcalls' = lcalls + 1
    /\ lslept' = [lslept EXCEPT ![c] = FALSE]
    /\ UNCHANGED <<now, ctxDone, rate, window, requests, lwake, maxWaitTime, lpanic, lgrants,
                   clientVars, batchVars, otherVars>>

\* tryAcquire: what follows the computation of delay; both branches of
\* `if delay > l.maxWaitTime` return (delay, false)
AfterDelay(d, maxWait) ==
    IF d > maxWait THEN [delay |-> d, allow |-> FALSE]
    ELSE [delay |-> d, allow |-> FALSE]

\* one tryAcquire under the mutex, and what Wait does with its result;
\* l.requests[0] panics (index out of range) when the slice is empty
LimiterTryAcquire(c) ==
    /\ ~lpanic
    /\ lpc[c] = "try"
    /\ LET kept == Prune(requests, now, window) IN
         IF Allow(kept, rate)
         THEN /\ requests' = Append(kept, now)
              /\ lgrants' = Append(lgrants, now)
              /\ lpc' = [lpc EXCEPT ![c] = "granted"]
              /\ UNCHANGED <<lwake, lpanic>>
         ELSE IF kept = <<>>
         THEN /\ requests' = kept
              /\ lpanic' = TRUE
              /\ lpc' = [lpc EXCEPT ![c] = "panicked"]
              /\ UNCHANGED <<lwake, lgrants>>
         ELSE LET res == AfterDelay(Delay(kept, now, window), maxWaitTime) IN
              /\ requests' = kept
              /\ lwake' = [lwake EXCEPT ![c] = now + res.delay]
              /\ lpc' = [lpc EXCEPT ![c] = IF res.allow THEN "granted" ELSE "sleep"]
              /\ UNCHANGED <<lgrants, lpanic>>
    /\ UNCHANGED <<now, ctxDone, rate, window, lcalls, lslept, maxWaitTime, clientVars, batchVars,
                   otherVars>>

\* SetMaxWaitTime(d), under the mutex
SetMaxWaitTime(d) ==
    /\ ~lpanic
    /\ maxWaitTime # d
    /\ maxWaitTime' = d
    /\ UNCHANGED <<now, ctxDone, rate, window, requests, lpc, lwake, lcalls, lslept, lpanic,
                   lgrants, clientVars, batchVars, otherVars>>

\* select: case <-time.After(delay): continue trying
LimiterWake(c) ==
    /\ lpc[c] = "sleep"
    /\ now >= lwake[c]
    /\ lpc' = [lpc EXCEPT ![c] = "try"]
    /\ lslept' = [lslept EXCEPT ![c] = TRUE]
    /\ lwake' = [lwake EXCEPT ![c] = 0]
    /\ UNCHANGED <<now, ctxDone, rate, window, requests, lcalls, maxWaitTime, lpanic, lgrants,
                   clientVars, batchVars, otherVars>>

\* select: case <-ctx.Done(): return ctx.Err()
LimiterCancelled(c) ==
    /\ lpc[c] = "sleep"
    /\ ctxDone
    /\ lpc' = [lpc EXCEPT ![c] = "cancelled"]
    /\ lwake' = [lwake EXCEPT ![c] = 0]
    /\ requests' = RequestsOnCancel(requests, now)
    /\ UNCHANGED <<now, ctxDone, rate, window, lcalls, lslept, maxWaitTime, lpanic,
                   lgrants, clientVars, batchVars, otherVars>>


(* ---- vision.RateLimiter and vision.Client ---- *)
\* RateLimiter.Wait: "Remove expired timestamps": skips the leading entries
\* that are Before(now - window) and keeps everything from the first other one
RECURSIVE DropLeadingBefore(_, _)
DropLeadingBefore(s, cutoff) ==
    IF s # <<>> /\ Head(s) < cutoff THEN DropLeadingBefore(Tail(s), cutoff) ELSE s

\* RateLimiter.Wait: "Check if we need to wait"
MustWait(reqs, limit, t, w) ==
    /\ Len(reqs) >= limit
    /\ (reqs[1] + w) - t > 0

\* DetectLabels: "Calculate backoff delay"
BackoffDelay(init, maxb, attempt) ==
    IF init * (2 ^ attempt) > maxb THEN maxb ELSE init * (2 ^ attempt)

\* an error value: its message, the message of the error it wraps ("" when
\* it wraps none) and the attempt count its message states (0 when it states
\* none)
NilError == [msg |-> "", cause |-> "", attempts |-> 0]
\* errors.New / fmt.Errorf without %w
NewError(msg) == [msg |-> msg, cause |-> "", attempts |-> 0]
\* fmt.Errorf(msg + ": %w", err)
Errorf(msg, err) == [msg |-> msg, cause |-> err.msg, attempts |-> 0]
\* ctx.Err()
CtxErr == NewError("context canceled")
\* executeCommand: fmt.Errorf("command execution failed: %w: %s", err, output)
CommandError == Errorf("command execution failed", NewError("exit status 1"))

\* the option sets the client is built with: durations in clock units
ClientOptions ==
    { [RateLimit |-> 1, MaxRetries |-> 0, InitialBackoff |-> 1, MaxBackoff |-> 1],
      [RateLimit |-> 1, MaxRetries |-> 1, InitialBackoff |-> 1, MaxBackoff |-> 2],
      [RateLimit |-> 2, MaxRetries |-> 2, InitialBackoff |-> 1, MaxBackoff |-> 1] }

\* a client none of whose methods is ever called (used by the specifications
\* that are about another component)
ClientIdle ==
    /\ rateLimit = 1
    /\ maxRetries = 0
    /\ initialBackoff = 1
    /\ maxBackoff = 1
    /\ vwindow = Minute
    /\ vrequests = <<>>
    /\ dpc = [c \in Workers |-> "idle"]
    /\ dlocalNow = [c \in Workers |-> 0]
    /\ dwake = [c \in Workers |-> 0]
    /\ dattempt = [c \in Workers |-> 0]
    /\ dcalls = 0
    /\ vgrants = <<>>
    /\ vexecs = <<>>
    /\ dinvoked = [c \in Workers |-> 0]
    /\ dfails = [c \in Workers |-> 0]
    /\ derr = [c \in Workers |-> NilError]
    /\ dstart = [c \in Workers |-> 0]

\* NewClient: options accepted by the constructor, an empty window of one minute
ClientInit ==
    /\ \E cfg \in ClientOptions :
          /\ rateLimit = cfg.RateLimit
          /\ maxRetries = cfg.MaxRetries
          /\ initialBackoff = cfg.InitialBackoff
          /\ maxBackoff = cfg.MaxBackoff
    /\ vwindow = Minute
    /\ vrequests = <<>>
    /\ dpc = [c \in Workers |-> "idle"]
    /\ dlocalNow = [c \in Workers |-> 0]
    /\ dwake = [c \in Workers |-> 0]
    /\ dattempt = [c \in Workers |-> 0]
    /\ dcalls = 0
    /\ vgrants = <<>>
    /\ vexecs = <<>>
    /\ dinvoked = [c \in Workers |-> 0]
    /\ dfails = [c \in Workers |-> 0]
    /\ derr = [c \in Workers |-> NilError]
    /\ dstart = [c \in Workers |-> 0]

DReturned == {"idle", "ok", "err", "exhausted", "cancelled", "failed"}

\* a worker calls DetectLabels, which calls RateLimiter.Wait: the section of
\* Wait that runs under the mutex before any sleep
WaitEnter(c) ==
    /\ dpc[c] \in DReturned
    /\ dcalls < MaxDetectCalls
    /\ dcalls' = dcalls + 1
    /\ dattempt' = [dattempt EXCEPT ![c] = 0]
    /\ dinvoked' = [dinvoked EXCEPT ![c] = 0]
    /\ dfails' = [dfails EXCEPT ![c] = 0]
    /\ derr' = [derr EXCEPT ![c] = NilError]
    /\ LET kept == DropLeadingBefore(vrequests, now - vwindow) IN
         IF MustWait(kept, rateLimit, now, vwindow)
         THEN /\ vrequests' = kept
              /\ dwake' = [dwake EXCEPT ![c] = now + ((kept[1] + vwindow) - now)]
              /\ dlocalNow' = [dlocalNow EXCEPT ![c] = now]
              /\ dpc' = [dpc EXCEPT ![c] = "vsleep"]
              /\ UNCHANGED vgrants
         ELSE /\ vrequests' = Append(kept, now)
              /\ vgrants' = Append(vgrants, now)
              /\ dpc' = [dpc EXCEPT ![c] = "attempt"]
              /\ UNCHANGED <<dwake, dlocalNow>>
    /\ UNCHANGED <<now, ctxDone, limiterVars, batchVars, otherVars, rateLimit, maxRetries, initialBackoff, dstart,
                   maxBackoff, vwindow, vexecs>>

\* RateLimiter.Wait: case <-time.After(waitTime): lock, "Record request" with
\* the `now` read before the sleep, return nil
WaitWake(c) ==
    /\ dpc[c] = "vsleep"
    /\ now >= dwake[c]
    /\ vrequests' = Append(vrequests, dlocalNow[c])
    /\ vgrants' = Append(vgrants, now)
    /\ dpc' = [dpc EXCEPT ![c] = "attempt"]
    /\ dlocalNow' = [dlocalNow EXCEPT ![c] = 0]
    /\ dwake' = [dwake EXCEPT ![c] = 0]
    /\ UNCHANGED <<now, ctxDone, limiterVars, batchVars, otherVars, rateLimit, maxRetries, initialBackoff, dstart,
                   maxBackoff, vwindow, dattempt, dcalls, vexecs, dinvoked, dfails, derr>>

\* RateLimiter.Wait: case <-ctx.Done(): return ctx.Err(); DetectLabels
\* returns "rate limit wait: ..."
WaitCancelled(c) ==
    /\ dpc[c] = "vsleep"
    /\ ctxDone
    /\ dpc' = [dpc EXCEPT ![c] = "cancelled"]
    /\ derr' = [derr EXCEPT ![c] = Errorf("rate limit wait", CtxErr)]
    /\ dlocalNow' = [dlocalNow EXCEPT ![c] = 0]
    /\ dwake' = [dwake EXCEPT ![c] = 0]
    /\ vrequests' = RequestsOnCancel(vrequests, dlocalNow[c])
    /\ UNCHANGED <<now, ctxDone, limiterVars, batchVars, otherVars, rateLimit, maxRetries, initialBackoff, dstart,
                   maxBackoff, vwindow, dattempt, dcalls,
                   vgrants, vexecs, dinvoked, dfails>>

\* mutant: the loop does not look at the context before an attempt
SelectDoneIgnored(done) == FALSE
\* select { case <-ctx.Done(): ...; default: ... }: the default runs only
\* when the context is not done
SelectDone(done) == done

\* DetectLabels: top of the retry loop: select on ctx.Done(), default: the
\* external command is started
AttemptStart(c) ==
    /\ dpc[c] = "attempt"
    /\ IF SelectDone(ctxDone)
       THEN /\ dpc' = [dpc EXCEPT ![c] = "cancelled"]
            /\ derr' = [derr EXCEPT ![c] = CtxErr]
            /\ UNCHANGED <<vexecs, dinvoked, dstart>>
       ELSE /\ dpc' = [dpc EXCEPT ![c] = "exec"]
            /\ UNCHANGED derr
            /\ vexecs' = Append(vexecs, now)
            /\ dinvoked' = [dinvoked EXCEPT ![c] = @ + 1]
            /\ dstart' = [dstart EXCEPT ![c] = now]
    /\ UNCHANGED <<now, ctxDone, limiterVars, batchVars, otherVars, rateLimit, maxRetries, initialBackoff,
                   maxBackoff, vwindow, vrequests, dlocalNow, dwake, dattempt, dcalls,
                   vgrants, dfails>>

ExecOutcomes == {"labels", "parse_error", "api_error", "command_failed"}

\* mutant: the exhaustion test is one attempt late
LastAttemptLate(attempt, maxr) == attempt = maxr + 1
\* DetectLabels: `if attempt == c.options.MaxRetries`
LastAttempt(attempt, maxr) == attempt = maxr

\* DetectLabels: executeCommand returns and its result is handled
ExecReturn(c, outcome) ==
    /\ dpc[c] = "exec"
    /\ dstart' = [dstart EXCEPT ![c] = 0]
    /\ dfails' = IF outcome = "command_failed"
                 THEN [dfails EXCEPT ![c] = @ + 1] ELSE dfails
    /\ IF outcome = "labels"
       THEN /\ dpc' = [dpc EXCEPT ![c] = "ok"]
            /\ UNCHANGED <<dwake, dattempt, derr>>
       ELSE IF outcome \in {"parse_error", "api_error"}
       THEN /\ dpc' = [dpc EXCEPT ![c] = "err"]
            /\ derr' = [derr EXCEPT ![c] =
                          IF outcome = "parse_error"
                          THEN Errorf("failed to parse API response", NewError("invalid JSON"))
                          ELSE NewError("API error: message")]
            /\ UNCHANGED <<dwake, dattempt>>
       ELSE IF LastAttempt(dattempt[c], maxRetries)
       THEN /\ dpc' = [dpc EXCEPT ![c] = "exhausted"]
            /\ derr' = [derr EXCEPT ![c] = Errorf("max retries exceeded", CommandError)]
            /\ UNCHANGED <<dwake, dattempt>>
       ELSE /\ dpc' = [dpc EXCEPT ![c] = "backoff"]
            /\ UNCHANGED derr
            /\ dwake' = [dwake EXCEPT ![c] =
                           now + BackoffDelay(initialBackoff, maxBackoff, dattempt[c])]
            /\ UNCHANGED dattempt
    /\ UNCHANGED <<now, ctxDone, limiterVars, batchVars, otherVars, rateLimit, maxRetries, initialBackoff,
                   maxBackoff, vwindow, vrequests, dlocalNow, dcalls,
                   vgrants, vexecs, dinvoked>>

\* DetectLabels: case <-time.After(delay): continue: attempt++, then the loop
\* condition `attempt <= MaxRetries`; when it fails the function returns
\* "failed to detect labels"
BackoffWake(c) ==
    /\ dpc[c] = "backoff"
    /\ now >= dwake[c]
    /\ dattempt' = [dattempt EXCEPT ![c] = @ + 1]
    /\ dpc' = [dpc EXCEPT ![c] = IF dattempt[c] + 1 <= maxRetries THEN "attempt" ELSE "failed"]
    /\ derr' = IF dattempt[c] + 1 <= maxRetries THEN derr
               ELSE [derr EXCEPT ![c] = NewError("failed to detect labels")]
    /\ dwake' = [dwake EXCEPT ![c] = 0]
    /\ UNCHANGED <<now, ctxDone, limiterVars, batchVars, otherVars, rateLimit, maxRetries, initialBackoff, dstart,
                   maxBackoff, vwindow, vrequests, dlocalNow, dcalls,
                   vgrants, vexecs, dinvoked, dfails>>

\* DetectLabels: during the backoff: case <-ctx.Done(): return ctx.Err()
BackoffCancelled(c) ==
    /\ dpc[c] = "backoff"
    /\ ctxDone
    /\ dpc' = [dpc EXCEPT ![c] = "cancelled"]
    /\ derr' = [derr EXCEPT ![c] = CtxErr]
    /\ dwake' = [dwake EXCEPT ![c] = 0]
    /\ UNCHANGED <<now, ctxDone, limiterVars, batchVars, otherVars, rateLimit, maxRetries, initialBackoff, dstart,
                   maxBackoff, vwindow, vrequests, dlocalNow, dattempt, dcalls,
                   vgrants, vexecs, dinvoked, dfails>>


(* ---- processor.VisionProcessor ---- *)
PoolWorkers == 1..MaxPool

\* defaultOptions: AllowedFormats
AllowedFormats == {"jpg", "jpeg", "png", "gif", "bmp"}

\* the file names the model uses: one image per position of the batch,
\* and a file that is no image
ImageNames == <<"a.jpg", "b.png", "c.gif", "d.bmp", "e.jpeg">>

\* filepath.Ext on the file names the model uses
Ext(name) ==
    CASE name = "a.jpg" -> ".jpg"
      [] name = "b.png" -> ".png"
      [] name = "c.gif" -> ".gif"
      [] name = "d.bmp" -> ".bmp"
      [] name = "e.jpeg" -> ".jpeg"
      [] name = "notes.txt" -> ".txt"
      [] OTHER -> ""

\* the inputs position i of a batch is drawn from
InputsAt(i) ==
    { [Filename |-> ImageNames[i], Reader |-> TRUE],
      [Filename |-> "notes.txt", Reader |-> TRUE] }

\* the batches ProcessBatch is called with
Batches ==
    UNION { {b \in [1..n -> UNION {InputsAt(i) : i \in 1..n}] :
                \A i \in 1..n : b[i] \in InputsAt(i)} : n \in 0..MaxInputs }

\* validateInput: "" when the input is accepted, else the error
validateInput(input) ==
    IF ~input.Reader THEN "input reader is required"
    ELSE IF input.Filename = "" THEN "filename is required"
    ELSE IF Ext(input.Filename) = "" THEN "filename must have an extension"
    ELSE IF \A f \in AllowedFormats : Ext(input.Filename) # "." \o f
         THEN "unsupported format"
    ELSE ""

\* ProcessOutput{}: the zero value
ZeroOutput(i) == [Filename |-> "", Error |-> "", src |-> i]

NoOutput == [Filename |-> "", Error |-> "", src |-> 0]

\* a processor whose ProcessBatch is never called
BatchIdle ==
    /\ inputs = <<>>
    /\ poolSize = 1
    /\ deleteTempFiles = FALSE
    /\ mpc = "idle"
    /\ jobs = <<>>
    /\ jobsClosed = FALSE
    /\ results = <<>>
    /\ resultsClosed = FALSE
    /\ wgCount = 0
    /\ fidx = 1
    /\ fdone = FALSE
    /\ wpc = [w \in PoolWorkers |-> "absent"]
    /\ wjob = [w \in PoolWorkers |-> 0]
    /\ wout = [w \in PoolWorkers |-> NoOutput]
    /\ werr = [w \in PoolWorkers |-> ""]
    /\ outputs = <<>>
    /\ retErr = ""
    /\ tmpFiles = {}
    /\ trackerCurrent = 0
    /\ processed = <<>>
    /\ perr = <<>>
    /\ cleanups = 0
    /\ psteps = [i \in DOMAIN inputs |-> <<>>]

\* NewProcessor, then ProcessBatch(ctx, inputs) is entered
BatchInit ==
    /\ inputs \in Batches
    /\ poolSize \in 1..MaxPool
    /\ deleteTempFiles \in BOOLEAN
    /\ mpc = "start"
    /\ jobs = <<>>
    /\ jobsClosed = FALSE
    /\ results = <<>>
    /\ resultsClosed = FALSE
    /\ wgCount = 0
    /\ fidx = 1
    /\ fdone = FALSE
    /\ wpc = [w \in PoolWorkers |-> "absent"]
    /\ wjob = [w \in PoolWorkers |-> 0]
    /\ wout = [w \in PoolWorkers |-> NoOutput]
    /\ werr = [w \in PoolWorkers |-> ""]
    /\ outputs = <<>>
    /\ retErr = ""
    /\ tmpFiles = {}
    /\ trackerCurrent = 0
    /\ processed = [i \in DOMAIN inputs |-> 0]
    /\ perr = [i \in DOMAIN inputs |-> ""]
    /\ cleanups = 0
    /\ psteps = [i \in DOMAIN inputs |-> <<>>]

\* mutant: one worker goroutine per input
SpawnedPerInput(size, n) == n
\* `for i := 0; i < p.options.PoolSize; i++`: the number of `go p.worker`
\* statements run for a batch of n inputs
Spawned(size, n) == size

\* ProcessBatch: the empty batch returns (nil, nil); otherwise the channels
\* are made and the workers, the feeder and the closer goroutines are started
BatchStart ==
    /\ mpc = "start"
    /\ IF Len(inputs) = 0
       THEN /\ mpc' = "returned"
            /\ UNCHANGED <<wgCount, wpc>>
       ELSE /\ mpc' = "gather"
            /\ wgCount' = Spawned(poolSize, Len(inputs))
            /\ wpc' = [w \in PoolWorkers |->
                         IF w <= Spawned(poolSize, Len(inputs)) THEN "recv" ELSE "absent"]
    /\ UNCHANGED <<now, ctxDone, limiterVars, clientVars, otherVars, inputs, poolSize,
                   deleteTempFiles, jobs, jobsClosed, results, resultsClosed, fidx,
                   fdone, wjob, wout, werr, outputs, retErr, tmpFiles, trackerCurrent,
                   processed, perr, cleanups, psteps>>

\* feeder: select chose `jobs <- input`
FeederSend ==
    /\ mpc # "start" /\ Len(inputs) > 0
    /\ ~fdone
    /\ fidx <= Len(inputs)
    /\ Len(jobs) < Len(inputs)
    /\ jobs' = Append(jobs, fidx)
    /\ fidx' = fidx + 1
    /\ UNCHANGED <<now, ctxDone, limiterVars, clientVars, otherVars, inputs, poolSize,
                   deleteTempFiles, mpc, jobsClosed, results, resultsClosed, wgCount,
                   fdone, wpc, wjob, wout, werr, outputs, retErr, tmpFiles, trackerCurrent,
                   processed, perr, cleanups, psteps>>

\* feeder: select chose `<-ctx.Done()`: return, and the deferred close(jobs)
FeederCancelled ==
    /\ mpc # "start" /\ Len(inputs) > 0
    /\ ~fdone
    /\ fidx <= Len(inputs)
    /\ ctxDone
    /\ fdone' = TRUE
    /\ jobsClosed' = TRUE
    /\ UNCHANGED <<now, ctxDone, limiterVars, clientVars, otherVars, inputs, poolSize,
                   deleteTempFiles, mpc, jobs, results, resultsClosed, wgCount, fidx,
                   wpc, wjob, wout, werr, outputs, retErr, tmpFiles, trackerCurrent,
                   processed, perr, cleanups, psteps>>

\* feeder: the range over inputs is exhausted: the deferred close(jobs)
FeederDone ==
    /\ mpc # "start" /\ Len(inputs) > 0
    /\ ~fdone
    /\ fidx > Len(inputs)
    /\ fdone' = TRUE
    /\ jobsClosed' = TRUE
    /\ UNCHANGED <<now, ctxDone, limiterVars, clientVars, otherVars, inputs, poolSize,
                   deleteTempFiles, mpc, jobs, results, resultsClosed, wgCount, fidx,
                   wpc, wjob, wout, werr, outputs, retErr, tmpFiles, trackerCurrent,
                   processed, perr, cleanups, psteps>>

\* mutant: the receive leaves the job in the channel
JobsAfterRecvKept(q) == q
\* a receive from the jobs channel removes the job it delivers
JobsAfterRecv(q) == Tail(q)

\* worker: `for job := range jobs` receives a job
WorkerRecv(w) ==
    /\ wpc[w] = "recv"
    /\ jobs # <<>>
    /\ wjob' = [wjob EXCEPT ![w] = Head(jobs)]
    /\ jobs' = JobsAfterRecv(jobs)
    /\ wpc' = [wpc EXCEPT ![w] = "select"]
    /\ UNCHANGED <<now, ctxDone, limiterVars, clientVars, otherVars, inputs, poolSize,
                   deleteTempFiles, mpc, jobsClosed, results, resultsClosed, wgCount,
                   fidx, fdone, wout, werr, outputs, retErr, tmpFiles, trackerCurrent,
                   processed, perr, cleanups, psteps>>

\* mutant: a worker returns without telling the WaitGroup
wgDoneLost(n) == n
\* worker: the deferred wg.Done()
wgDone(n) == n - 1

\* worker: the range ends on the closed and drained channel: wg.Done()
WorkerExit(w) ==
    /\ wpc[w] = "recv"
    /\ jobs = <<>>
    /\ jobsClosed
    /\ wpc' = [wpc EXCEPT ![w] = "exited"]
    /\ wgCount' = wgDone(wgCount)
    /\ UNCHANGED <<now, ctxDone, limiterVars, clientVars, otherVars, inputs, poolSize,
                   deleteTempFiles, mpc, jobs, jobsClosed, results, resultsClosed,
                   fidx, fdone, wjob, wout, werr, outputs, retErr, tmpFiles,
                   trackerCurrent, processed, perr, cleanups, psteps>>

\* mutant: a cancelled worker emits an empty output for the job it dropped
ResultsOnCancelFabricated(res, job) == Append(res, ZeroOutput(job))
\* worker: `case <-ctx.Done(): return`: nothing is sent for the dequeued job
ResultsOnCancel(res, job) == res

\* mutant: Process goes on to processImage whatever validateInput returned
AfterValidateContinue(err) == "prepare"
\* Process: `if err := p.validateInput(input); err != nil { return ... }`:
\* where the worker goes next
AfterValidate(err) == IF err # "" THEN "send" ELSE "prepare"

\* worker: select: case <-ctx.Done(): return (wg.Done()); default: Process
\* is called, which starts with validateInput
WorkerSelect(w) ==
    /\ wpc[w] = "select"
    /\ IF ctxDone
       THEN /\ wpc' = [wpc EXCEPT ![w] = "exited"]
            /\ wgCount' = wgDone(wgCount)
            /\ wjob' = [wjob EXCEPT ![w] = 0]
            /\ results' = ResultsOnCancel(results, wjob[w])
            /\ UNCHANGED <<wout, werr, processed, perr, psteps>>
       ELSE /\ processed' = [processed EXCEPT ![wjob[w]] = @ + 1]
            /\ psteps' = [psteps EXCEPT ![wjob[w]] = Append(@, "validate")]
            /\ UNCHANGED <<wgCount, wjob, results>>
            /\ LET err == validateInput(inputs[wjob[w]]) IN
                 /\ wpc' = [wpc EXCEPT ![w] = AfterValidate(err)]
                 /\ IF err # ""
                    THEN /\ wout' = [wout EXCEPT ![w] = ZeroOutput(wjob[w])]
                         /\ werr' = [werr EXCEPT ![w] = err]
                         /\ perr' = [perr EXCEPT ![wjob[w]] = err]
                    ELSE UNCHANGED <<wout, werr, perr>>
    /\ UNCHANGED <<now, ctxDone, limiterVars, clientVars, otherVars, inputs, poolSize,
                   deleteTempFiles, mpc, jobs, jobsClosed, resultsClosed,
                   fidx, fdone, outputs, retErr, tmpFiles, trackerCurrent, cleanups>>

PrepareOutcomes == {"prepared", "create_temp_failed", "handler_failed"}

\* processImage: prepareImage returns.  CreateTemp registers the file it made
\* (named after the input) before the image handler runs
PrepareImage(w, outcome) ==
    /\ wpc[w] = "prepare"
    /\ psteps' = [psteps EXCEPT ![wjob[w]] = Append(@, "prepare")]
    /\ tmpFiles' = IF outcome = "create_temp_failed" THEN tmpFiles
                   ELSE tmpFiles \cup {wjob[w]}
    /\ IF outcome = "prepared"
       THEN /\ wpc' = [wpc EXCEPT ![w] = "detect"]
            /\ UNCHANGED <<wout, werr, perr>>
       ELSE /\ wout' = [wout EXCEPT ![w] = ZeroOutput(wjob[w])]
            /\ werr' = [werr EXCEPT ![w] = "image preparation failed"]
            /\ perr' = [perr EXCEPT ![wjob[w]] = "image preparation failed"]
            /\ wpc' = [wpc EXCEPT ![w] = "send"]
    /\ UNCHANGED <<now, ctxDone, limiterVars, clientVars, otherVars, inputs, poolSize,
                   deleteTempFiles, mpc, jobs, jobsClosed, results, resultsClosed,
                   wgCount, fidx, fdone, wjob, outputs, retErr, trackerCurrent,
                   processed, cleanups>>

\* detectLabels: DetectLabels returned labels (saved or not), failed after
\* it started the annotator command, or failed before any command was started,
\* which only a cancelled context brings about ("wait_cancelled")
DetectOutcomes == {"labels", "detection_failed", "save_failed", "wait_cancelled"}

\* the steps DetectLabels runs: RateLimiter.Wait, then, when the wait
\* returned nil, the annotator command
DetectSteps(outcome) ==
    IF outcome = "wait_cancelled" THEN <<"acquire">> ELSE <<"acquire", "annotate">>

\* processImage after prepareImage: the output it returns for each outcome of
\* detectLabels and saveResults
OutputOf(input, i, outcome) ==
    IF outcome \in {"detection_failed", "wait_cancelled"}
    THEN ZeroOutput(i)
    ELSE [Filename |-> input.Filename, Error |-> "", src |-> i]

\* processImage after prepareImage: the error it returns
ErrorOf(outcome) ==
    IF outcome \in {"detection_failed", "wait_cancelled"} THEN "label detection failed"
    ELSE IF outcome = "save_failed" THEN "failed to save results"
    ELSE ""

\* processImage: detectLabels (Client.DetectLabels) returns; on success the
\* output is built and saveResults writes it
DetectAndSave(w, outcome) ==
    /\ wpc[w] = "detect"
    /\ outcome = "wait_cancelled" => ctxDone
    /\ psteps' = [psteps EXCEPT ![wjob[w]] = @ \o DetectSteps(outcome)]
    /\ wout' = [wout EXCEPT ![w] = OutputOf(inputs[wjob[w]], wjob[w], outcome)]
    /\ werr' = [werr EXCEPT ![w] = ErrorOf(outcome)]
    /\ perr' = [perr EXCEPT ![wjob[w]] = ErrorOf(outcome)]
    /\ wpc' = [wpc EXCEPT ![w] = "send"]
    /\ UNCHANGED <<now, ctxDone, limiterVars, clientVars, otherVars, inputs, poolSize,
                   deleteTempFiles, mpc, jobs, jobsClosed, results, resultsClosed,
                   wgCount, fidx, fdone, wjob, outputs, retErr, tmpFiles,
                   trackerCurrent, processed, cleanups>>

\* mutant: the error Process returned is not put on the output
WithErrorIgnored(out, err) == out
\* worker: `if err != nil { output.Error = err }`
WithError(out, err) == IF err # "" THEN [out EXCEPT !.Error = err] ELSE out

\* mutant: a worker that met an error sends nothing
ResultsAfterSendFailedDropped(res, out) == IF out.Error # "" THEN res ELSE Append(res, out)
\* worker: `results <- output`
ResultsAfterSend(res, out) == Append(res, out)

\* worker: `if err != nil { output.Error = err }; results <- output`
\* a send on a closed channel panics
WorkerSend(w) ==
    /\ wpc[w] = "send"
    /\ IF resultsClosed
       THEN /\ wpc' = [wpc EXCEPT ![w] = "panicked"]
            /\ UNCHANGED <<results, wout, werr, wjob>>
       ELSE /\ Len(results) < Len(inputs)
            /\ results' = ResultsAfterSend(results, WithError(wout[w], werr[w]))
            /\ wout' = [wout EXCEPT ![w] = NoOutput]
            /\ werr' = [werr EXCEPT ![w] = ""]
            /\ wjob' = [wjob EXCEPT ![w] = 0]
            /\ wpc' = [wpc EXCEPT ![w] = "recv"]
    /\ UNCHANGED <<now, ctxDone, limiterVars, clientVars, otherVars, inputs, poolSize,
                   deleteTempFiles, mpc, jobs, jobsClosed, resultsClosed, wgCount,
                   fidx, fdone, outputs, retErr, tmpFiles, trackerCurrent,
                   processed, perr, cleanups, psteps>>

\* mutant: the wait is over while a worker is still running
WaitReturnsEarly(n) == n <= 1
\* wg.Wait() returns when the counter is zero
WaitReturns(n) == n = 0

\* closer goroutine: wg.Wait() returns, close(results)
CloseResults ==
    /\ mpc = "gather"
    /\ WaitReturns(wgCount)
    /\ ~resultsClosed
    /\ resultsClosed' = TRUE
    /\ UNCHANGED <<now, ctxDone, limiterVars, clientVars, otherVars, inputs, poolSize,
                   deleteTempFiles, mpc, jobs, jobsClosed, results, wgCount, fidx,
                   fdone, wpc, wjob, wout, werr, outputs, retErr, tmpFiles, trackerCurrent,
                   processed, perr, cleanups, psteps>>

\* ProcessBatch: `for result := range results`: one result is appended and the
\* tracker is told
Gather ==
    /\ mpc = "gather"
    /\ results # <<>>
    /\ outputs' = Append(outputs, Head(results))
    /\ results' = Tail(results)
    /\ trackerCurrent' = Len(outputs) + 1
    /\ UNCHANGED <<now, ctxDone, limiterVars, clientVars, otherVars, inputs, poolSize,
                   deleteTempFiles, mpc, jobs, jobsClosed, resultsClosed, wgCount,
                   fidx, fdone, wpc, wjob, wout, werr, retErr, tmpFiles, processed, perr,
                   cleanups, psteps>>

\* TempFileManager.Cleanup: every tracked file is removed from the registry;
\* the result is an error iff some os.Remove failed
CleanupError(files, removeFails) ==
    IF files # {} /\ removeFails THEN "failed to remove temp file" ELSE ""

\* ProcessBatch: the range ends on the closed and drained results channel;
\* "Clean up temp files if configured"; the select on the errors channel,
\* which nothing ever sends on, takes the default; return
Finish(removeFails) ==
    /\ mpc = "gather"
    /\ results = <<>>
    /\ resultsClosed
    /\ IF deleteTempFiles
       THEN /\ cleanups' = cleanups + 1
            /\ tmpFiles' = {}
            /\ retErr' = IF CleanupError(tmpFiles, removeFails) # ""
                         THEN "cleanup error" ELSE ""
       ELSE /\ retErr' = ""
            /\ UNCHANGED <<cleanups, tmpFiles>>
    /\ mpc' = "returned"
    /\ UNCHANGED <<now, ctxDone, limiterVars, clientVars, otherVars, inputs, poolSize,
                   deleteTempFiles, jobs, jobsClosed, results, resultsClosed, wgCount,
                   fidx, fdone, wpc, wjob, wout, werr, outputs, trackerCurrent, processed,
                   perr, psteps>>

(* ---- time.Duration arithmetic of the backoff delay ---- *)
\* a time.Duration is an int64 count of nanoseconds; it is kept in two's
\* complement as a sequence of 16-bit limbs, least significant first
LimbBase == 65536
\* the limbs of an int64
DurationLimbs == 4
\* the limbs used for the exact (unbounded) value of a product
WideLimbs == 8

\* the Duration of n nanoseconds, 0 <= n < 2^31
Nanoseconds(n) == [i \in 1..DurationLimbs |->
                     IF i = 1 THEN n % LimbBase
                     ELSE IF i = 2 THEN n \div LimbBase ELSE 0]

\* time.Second
Second == Nanoseconds(1000000000)

RECURSIVE DoubleFrom(_, _, _)
\* d + d from limb i on with the incoming carry; the carry out of the last
\* limb is lost, as in fixed-width multiplication
DoubleFrom(d, i, carry) ==
    IF i > Len(d) THEN <<>>
    ELSE LET v == 2 * d[i] + carry IN
           <<v % LimbBase>> \o DoubleFrom(d, i + 1, v \div LimbBase)

RECURSIVE Shl(_, _)
\* d * (1 << a) in the width of d
Shl(d, a) == IF a = 0 THEN d ELSE Shl(DoubleFrom(d, 1, 0), a - 1)

RECURSIVE TimesFrom(_, _, _, _)
\* d * n from limb i on with the incoming carry, for a natural n < 2^15
TimesFrom(d, n, i, carry) ==
    IF i > Len(d) THEN <<>>
    ELSE LET v == d[i] * n + carry IN
           <<v % LimbBase>> \o TimesFrom(d, n, i + 1, v \div LimbBase)

\* d * n in the width of d
Times(d, n) == TimesFrom(d, n, 1, 0)

\* the sign bit
IsNegative(d) == d[Len(d)] >= LimbBase \div 2

RECURSIVE UnsignedGreater(_, _, _)
UnsignedGreater(a, b, i) ==
    IF i = 0 THEN FALSE
    ELSE IF a[i] # b[i] THEN a[i] > b[i]
    ELSE UnsignedGreater(a, b, i - 1)

\* a > b on signed values of the same width
Greater(a, b) ==
    IF IsNegative(a) # IsNegative(b) THEN IsNegative(b)
    ELSE UnsignedGreater(a, b, Len(a))

\* a non-negative Duration as an exact integer
Widen(d) == [i \in 1..WideLimbs |-> IF i <= Len(d) THEN d[i] ELSE 0]

\* the value of a signed Duration as an exact integer (sign extension)
SignExtend(d) == [i \in 1..WideLimbs |->
                    IF i <= Len(d) THEN d[i]
                    ELSE IF IsNegative(d) THEN LimbBase - 1 ELSE 0]

\* DetectLabels: delay := InitialBackoff * (1 << uint(attempt)); if delay >
\* MaxBackoff { delay = MaxBackoff }, in int64
delay(initial, maxb, attempt) ==
    LET d == Shl(initial, attempt) IN
      IF Greater(d, maxb) THEN maxb ELSE d

\* the option values the backoff computation is explored with
InitialBackoffOptions == {Times(Second, 1), Times(Second, 2), Times(Second, 5)}
MaxBackoffOptions == {Times(Second, 32), Times(Second, 60), Times(Second, 300)}

ZeroDuration == Nanoseconds(0)

\* no DetectLabels call is followed through its backoff delays
BackoffIdle ==
    /\ bInitial = ZeroDuration
    /\ bMax = ZeroDuration
    /\ bAttempt = 0
    /\ bDelay = ZeroDuration

\* a DetectLabels call enters its retry loop: attempt := 0
BackoffInit ==
    /\ bInitial \in InitialBackoffOptions
    /\ bMax \in MaxBackoffOptions
    /\ bAttempt = 0
    /\ bDelay = ZeroDuration

\* the attempt failed and is not the last one: the delay is computed and
\* waited for, then attempt++
BackoffStep ==
    /\ bAttempt < MaxRetriesBound
    /\ bDelay' = delay(bInitial, bMax, bAttempt)
    /\ bAttempt' = bAttempt + 1
    /\ UNCHANGED <<now, ctxDone, limiterVars, clientVars, batchVars, trackerVars,
                   statsVars, extraVars, bInitial, bMax>>

(* ---- progress.Tracker ---- *)
\* the goroutines that call Update and the Increment operations
Updaters == {"u1", "u2"}
\* the goroutines that call Finish
Finishers == {"f1", "f2"}
\* the goroutine started by Start, running updateDisplay
Renderer == "r"
Displayers == {Renderer} \cup Finishers

\* the arguments Update is called with
UpdateArgs == {a \in [current : 0..MaxCount, failed : 0..1, skipped : {0}] :
                  a.failed <= a.current}

NoSnapshot == [current |-> 0, total |-> 0, failed |-> 0, skipped |-> 0]

\* NewTracker(total, writer): the counters are zero values, the total passed
\* in is not stored; done is open, the ticker runs
TrackerInit ==
    /\ totalArg \in 1..MaxCount
    /\ tcurrent = 0
    /\ ttotal = 0
    /\ tfailed = 0
    /\ tskipped = 0
    /\ tmu = ""
    /\ tickerStopped = FALSE
    /\ tickPending = FALSE
    /\ tdone = FALSE
    /\ tpanic = FALSE
    /\ rpc = "absent"
    /\ fpc = [f \in Finishers |-> "idle"]
    /\ finishCalls = 0
    /\ upc = [u \in Updaters |-> "idle"]
    /\ uargs = [u \in Updaters |-> NoSnapshot]
    /\ tops = 0
    /\ disp = [g \in Displayers |-> "none"]
    /\ snap = [g \in Displayers |-> NoSnapshot]
    /\ summaries = 0
    /\ lineAfterSummary = FALSE

\* no tracker is in use
TrackerIdle ==
    /\ totalArg = 1
    /\ tcurrent = 0
    /\ ttotal = 0
    /\ tfailed = 0
    /\ tskipped = 0
    /\ tmu = ""
    /\ tickerStopped = FALSE
    /\ tickPending = FALSE
    /\ tdone = FALSE
    /\ tpanic = FALSE
    /\ rpc = "absent"
    /\ fpc = [f \in Finishers |-> "idle"]
    /\ finishCalls = 0
    /\ upc = [u \in Updaters |-> "idle"]
    /\ uargs = [u \in Updaters |-> NoSnapshot]
    /\ tops = 0
    /\ disp = [g \in Displayers |-> "none"]
    /\ snap = [g \in Displayers |-> NoSnapshot]
    /\ summaries = 0
    /\ lineAfterSummary = FALSE

\* what the tracker actions leave alone outside the tracker
TrackerFrame ==
    UNCHANGED <<now, ctxDone, limiterVars, clientVars, batchVars, backoffVars, statsVars,
                datasetVars, component, mutexVars>>

\* the history of the counters seen by the render in progress, after a step
\* of the tracker
HeldStep ==
    held' = IF tmu' = "" THEN {}
            ELSE (IF tmu = "" THEN {} ELSE held) \cup {<<tcurrent', tfailed', tskipped'>>}

\* Start: t.total.Store(t.total.Load()); go t.updateDisplay()
TrackerStart ==
    /\ ~tpanic
    /\ rpc = "absent"
    /\ rpc' = "select"
    /\ ttotal' = ttotal
    /\ TrackerFrame
    /\ UNCHANGED <<totalArg, tcurrent, tfailed, tskipped, tmu, tickerStopped, tickPending,
                   tdone, tpanic, fpc, finishCalls, upc, uargs, tops, disp, snap,
                   summaries, lineAfterSummary>>
    /\ HeldStep

\* the ticker sends a tick on ticker.C, a channel that holds one tick
TickerFire ==
    /\ ~tpanic
    /\ ~tickerStopped
    /\ ~tickPending
    /\ tickPending' = TRUE
    /\ TrackerFrame
    /\ UNCHANGED <<totalArg, tcurrent, ttotal, tfailed, tskipped, tmu, tickerStopped,
                   tdone, tpanic, rpc, fpc, finishCalls, upc, uargs, tops, disp, snap,
                   summaries, lineAfterSummary>>
    /\ HeldStep

\* atomic.Int64.Store
Store(old, new) == new
\* mutant: an increment that is lost
AddOneLost(old) == old
\* atomic.Int64.Add(1)
AddOne(old) == old + 1

\* Update: t.current.Store(current); the two other stores follow
UpdateCurrent(u, a) ==
    /\ ~tpanic
    /\ upc[u] = "idle"
    /\ tops < MaxTrackerOps
    /\ tops' = tops + 1
    /\ tcurrent' = Store(tcurrent, a.current)
    /\ uargs' = [uargs EXCEPT ![u] = [NoSnapshot EXCEPT !.failed = a.failed,
                                                        !.skipped = a.skipped]]
    /\ upc' = [upc EXCEPT ![u] = "failed"]
    /\ TrackerFrame
    /\ UNCHANGED <<totalArg, ttotal, tfailed, tskipped, tmu, tickerStopped, tickPending,
                   tdone, tpanic, rpc, fpc, finishCalls, disp, snap,
                   summaries, lineAfterSummary>>
    /\ HeldStep

\* Update: t.failed.Store(failed)
UpdateFailed(u) ==
    /\ ~tpanic
    /\ upc[u] = "failed"
    /\ tfailed' = Store(tfailed, uargs[u].failed)
    /\ upc' = [upc EXCEPT ![u] = "skipped"]
    /\ TrackerFrame
    /\ UNCHANGED <<totalArg, tcurrent, ttotal, tskipped, tmu, tickerStopped, tickPending,
                   tdone, tpanic, rpc, fpc, finishCalls, uargs, tops, disp, snap,
                   summaries, lineAfterSummary>>
    /\ HeldStep

\* Update: t.skipped.Store(skipped); return
UpdateSkipped(u) ==
    /\ ~tpanic
    /\ upc[u] = "skipped"
    /\ tskipped' = Store(tskipped, uargs[u].skipped)
    /\ upc' = [upc EXCEPT ![u] = "idle"]
    /\ uargs' = [uargs EXCEPT ![u] = NoSnapshot]
    /\ TrackerFrame
    /\ UNCHANGED <<totalArg, tcurrent, ttotal, tfailed, tmu, tickerStopped, tickPending,
                   tdone, tpanic, rpc, fpc, finishCalls, tops, disp, snap,
                   summaries, lineAfterSummary>>
    /\ HeldStep

\* Increment: t.current.Add(1)
Increment(u) ==
    /\ ~tpanic
    /\ upc[u] = "idle"
    /\ tops < MaxTrackerOps
    /\ tcurrent < MaxCount
    /\ tops' = tops + 1
    /\ tcurrent' = AddOne(tcurrent)
    /\ TrackerFrame
    /\ UNCHANGED <<totalArg, ttotal, tfailed, tskipped, tmu, tickerStopped, tickPending,
                   tdone, tpanic, rpc, fpc, finishCalls, upc, uargs, disp, snap,
                   summaries, lineAfterSummary>>
    /\ HeldStep

\* IncrementFailed: t.failed.Add(1)
IncrementFailed(u) ==
    /\ ~tpanic
    /\ upc[u] = "idle"
    /\ tops < MaxTrackerOps
    /\ tfailed < MaxCount
    /\ tops' = tops + 1
    /\ tfailed' = AddOne(tfailed)
    /\ TrackerFrame
    /\ UNCHANGED <<totalArg, tcurrent, ttotal, tskipped, tmu, tickerStopped, tickPending,
                   tdone, tpanic, rpc, fpc, finishCalls, upc, uargs, disp, snap,
                   summaries, lineAfterSummary>>
    /\ HeldStep

\* IncrementSkipped: t.skipped.Add(1)
IncrementSkipped(u) ==
    /\ ~tpanic
    /\ upc[u] = "idle"
    /\ tops < MaxTrackerOps
    /\ tskipped < MaxCount
    /\ tops' = tops + 1
    /\ tskipped' = AddOne(tskipped)
    /\ TrackerFrame
    /\ UNCHANGED <<totalArg, tcurrent, ttotal, tfailed, tmu, tickerStopped, tickPending,
                   tdone, tpanic, rpc, fpc, finishCalls, upc, uargs, disp, snap,
                   summaries, lineAfterSummary>>
    /\ HeldStep

\* updateDisplay: the select receives a tick and calls displayProgress, or
\* finds done closed and returns; when both are ready either may be taken
RendererSelect(choice) ==
    /\ ~tpanic
    /\ rpc = "select"
    /\ \/ /\ choice = "tick"
          /\ tickPending
          /\ tickPending' = FALSE
          /\ rpc' = "display"
          /\ disp' = [disp EXCEPT ![Renderer] = "begin"]
       \/ /\ choice = "done"
          /\ tdone
          /\ rpc' = "exited"
          /\ UNCHANGED <<tickPending, disp>>
    /\ TrackerFrame
    /\ UNCHANGED <<totalArg, tcurrent, ttotal, tfailed, tskipped, tmu, tickerStopped,
                   tdone, tpanic, fpc, finishCalls, upc, uargs, tops, snap,
                   summaries, lineAfterSummary>>
    /\ HeldStep

\* displayProgress / displayFinalStatus: t.mu.Lock(); current and total are loaded
DisplayBegin(g) ==
    /\ ~tpanic
    /\ disp[g] = "begin"
    /\ tmu = ""
    /\ tmu' = g
    /\ snap' = [snap EXCEPT ![g] = [NoSnapshot EXCEPT !.current = tcurrent,
                                                      !.total = ttotal]]
    /\ disp' = [disp EXCEPT ![g] = "failed"]
    /\ TrackerFrame
    /\ UNCHANGED <<totalArg, tcurrent, ttotal, tfailed, tskipped, tickerStopped, tickPending,
                   tdone, tpanic, rpc, fpc, finishCalls, upc, uargs, tops,
                   summaries, lineAfterSummary>>
    /\ HeldStep

\* displayProgress / displayFinalStatus: failed is loaded
DisplayFailed(g) ==
    /\ ~tpanic
    /\ disp[g] = "failed"
    /\ snap' = [snap EXCEPT ![g].failed = tfailed]
    /\ disp' = [disp EXCEPT ![g] = "skipped"]
    /\ TrackerFrame
    /\ UNCHANGED <<totalArg, tcurrent, ttotal, tfailed, tskipped, tmu, tickerStopped,
                   tickPending, tdone, tpanic, rpc, fpc, finishCalls, upc, uargs, tops,
                   summaries, lineAfterSummary>>
    /\ HeldStep

\* displayProgress / displayFinalStatus: skipped is loaded, the line or the
\* summary is written, the deferred t.mu.Unlock() runs
DisplayEnd(g) ==
    /\ ~tpanic
    /\ disp[g] = "skipped"
    /\ IF g = Renderer
       THEN /\ lineAfterSummary' = (lineAfterSummary \/ summaries > 0)
            /\ rpc' = "select"
            /\ UNCHANGED <<summaries, fpc>>
       ELSE /\ summaries' = summaries + 1
            /\ fpc' = [fpc EXCEPT ![g] = "returned"]
            /\ UNCHANGED <<lineAfterSummary, rpc>>
    /\ tmu' = ""
    /\ disp' = [disp EXCEPT ![g] = "none"]
    /\ snap' = [snap EXCEPT ![g] = NoSnapshot]
    /\ TrackerFrame
    /\ UNCHANGED <<totalArg, tcurrent, ttotal, tfailed, tskipped, tickerStopped, tickPending,
                   tdone, tpanic, finishCalls, upc, uargs, tops>>
    /\ HeldStep

\* Finish is called: t.ticker.Stop()
FinishStop(f) ==
    /\ ~tpanic
    /\ fpc[f] \in {"idle", "returned"}
    /\ finishCalls < MaxFinishCalls
    /\ finishCalls' = finishCalls + 1
    /\ tickerStopped' = TRUE
    /\ fpc' = [fpc EXCEPT ![f] = "close"]
    /\ TrackerFrame
    /\ UNCHANGED <<totalArg, tcurrent, ttotal, tfailed, tskipped, tmu, tickPending,
                   tdone, tpanic, rpc, upc, uargs, tops, disp, snap,
                   summaries, lineAfterSummary>>
    /\ HeldStep

\* close(ch) panics when ch is already closed
CloseOfClosed(closed) == closed

\* Finish: close(t.done): a panic when done is closed already; otherwise
\* t.displayFinalStatus() is entered
FinishClose(f) ==
    /\ ~tpanic
    /\ fpc[f] = "close"
    /\ IF CloseOfClosed(tdone)
       THEN /\ tpanic' = TRUE
            /\ fpc' = [fpc EXCEPT ![f] = "panicked"]
            /\ UNCHANGED <<tdone, disp>>
       ELSE /\ tdone' = TRUE
            /\ fpc' = [fpc EXCEPT ![f] = "display"]
            /\ disp' = [disp EXCEPT ![f] = "begin"]
            /\ UNCHANGED tpanic
    /\ TrackerFrame
    /\ UNCHANGED <<totalArg, tcurrent, ttotal, tfailed, tskipped, tmu, tickerStopped,
                   tickPending, rpc, finishCalls, upc, uargs, tops, snap,
                   summaries, lineAfterSummary>>
    /\ HeldStep

(* ---- dataset.Generator.calculateStats ---- *)
\* Record.Status values: the three that are counted and one that is not
Statuses == {"success", "failed", "skipped", "pending"}
\* Record.Confidence, in hundredths
Confidences == {0, 80}
\* Record.Labels
LabelLists == {<<>>, <<"cat">>}

RecordKinds == [Status : Statuses, Confidence : Confidences, Labels : LabelLists]

\* the record lists calculateStats is called with
RecordLists == UNION {[1..n -> RecordKinds] : n \in 0..MaxRecords}

\* `var stats Stats`: the zero value; an average is a fraction num / den
ZeroStats == [TotalRecords |-> 0, SuccessfulCount |-> 0, FailedCount |-> 0,
              SkippedCount |-> 0, UniqueLabels |-> 0,
              AverageLabels |-> [num |-> 0, den |-> 1],
              AverageConfidence |-> [num |-> 0, den |-> 1]]

\* calculateStats is entered: stats.TotalRecords = len(records), the
\* accumulators are zero
StatsInit ==
    /\ records \in RecordLists
    /\ stats = [ZeroStats EXCEPT !.TotalRecords = Len(records)]
    /\ sidx = 1
    /\ totalLabels = 0
    /\ totalConfidence = 0
    /\ uniqueLabels = {}
    /\ spc = "loop"

\* calculateStats is not called
StatsIdle ==
    /\ records = <<>>
    /\ stats = ZeroStats
    /\ sidx = 1
    /\ totalLabels = 0
    /\ totalConfidence = 0
    /\ uniqueLabels = {}
    /\ spc = "idle"

\* mutant: every record is counted under the case
CountCaseAlways(count, status, case) == count + 1
\* one case of `switch record.Status`
CountCase(count, status, case) == IF status = case THEN count + 1 ELSE count

\* the set of elements of a list
Range(list) == {list[i] : i \in DOMAIN list}

\* one iteration of `for _, record := range records`
StatsLoop ==
    /\ spc = "loop"
    /\ sidx <= Len(records)
    /\ LET record == records[sidx] IN
         /\ stats' = [stats EXCEPT
                        !.SuccessfulCount = CountCase(@, record.Status, "success"),
                        !.FailedCount = CountCase(@, record.Status, "failed"),
                        !.SkippedCount = CountCase(@, record.Status, "skipped")]
         /\ totalLabels' = totalLabels + Len(record.Labels)
         /\ totalConfidence' = totalConfidence + record.Confidence
         /\ uniqueLabels' = uniqueLabels \cup Range(record.Labels)
    /\ sidx' = sidx + 1
    /\ UNCHANGED <<now, ctxDone, limiterVars, clientVars, batchVars, backoffVars,
                   trackerVars, extraVars, records, spc>>

\* after the loop: the averages, when SuccessfulCount > 0, and UniqueLabels
StatsFinish ==
    /\ spc = "loop"
    /\ sidx > Len(records)
    /\ stats' = [stats EXCEPT
                   !.AverageLabels =
                       IF stats.SuccessfulCount > 0
                       THEN [num |-> totalLabels, den |-> stats.SuccessfulCount] ELSE @,
                   !.AverageConfidence =
                       IF stats.SuccessfulCount > 0
                       THEN [num |-> totalConfidence, den |-> stats.SuccessfulCount] ELSE @,
                   !.UniqueLabels = Cardinality(uniqueLabels)]
    /\ spc' = "done"
    /\ UNCHANGED <<now, ctxDone, limiterVars, clientVars, batchVars, backoffVars,
                   trackerVars, extraVars, records, sidx, totalLabels, totalConfidence,
                   uniqueLabels>>

(* ---- generateDataset and dataset.Generator.GenerateDataset ---- *)
\* the bytes error texts are made of: a letter, a double quote, a comma and
\* a byte that is not valid UTF-8 (file names may hold any of them)
Letter == "e"
Quote == "\""
Comma == ","
InvalidByte == "xFF"
\* what JSON puts in the place of an invalid byte: U+FFFD
ReplacementRune == "uFFFD"

\* texts of the errors an output carries; none is empty, each starts with the
\* fixed prefix of its fmt.Errorf
ErrorTexts == {<<Letter>>, <<Letter, Quote>>, <<Letter, Comma>>, <<Letter, InvalidByte>>}

\* ProcessOutput.Error: nil, or an error with its text
NoError == [isNil |-> TRUE, text |-> <<>>]
OutputErrors == {NoError} \cup {[isNil |-> FALSE, text |-> t] : t \in ErrorTexts}

\* ProcessOutput.Metadata, by its keys: nil (ProcessOutput{}), the map
\* processImage builds, and a map holding a string under "path"
MetadataKinds == {{}, {"processedAt", "size", "format"}, {"path"}}

OutputKinds == [Error : OutputErrors, Metadata : MetadataKinds]

\* the result lists generateDataset is called with
ResultLists == UNION {[1..n -> OutputKinds] : n \in 0..MaxResults}

\* dataset.Format
Formats == {"json", "csv", "jsonl"}

\* generateDataset is entered: records := make([]dataset.Record, len(results))
DatasetInit ==
    /\ gresults \in ResultLists
    /\ gformat \in Formats
    /\ gi = 1
    /\ grecords = <<>>
    /\ gwritten = <<>>
    /\ gpanic = FALSE
    /\ gpc = "build"

\* generateDataset is not called
DatasetIdle ==
    /\ gresults = <<>>
    /\ gformat = "jsonl"
    /\ gi = 1
    /\ grecords = <<>>
    /\ gwritten = <<>>
    /\ gpanic = FALSE
    /\ gpc = "idle"

\* no Wait call is followed statement by statement
MutexIdle ==
    /\ mu = 0
    /\ mupc = [c \in Callers |-> "idle"]
    /\ mubal = [c \in Callers |-> 0]
    /\ munow = [c \in Callers |-> 0]
    /\ muwake = [c \in Callers |-> 0]
    /\ mufault = FALSE

ExtraIdle == DatasetIdle /\ component = "none" /\ held = {} /\ MutexIdle

\* what the dataset actions leave alone outside the dataset
DatasetFrame ==
    UNCHANGED <<now, ctxDone, limiterVars, clientVars, batchVars, backoffVars,
                trackerVars, statsVars, component, held, mutexVars>>

\* mutant: every output is a success
getStatusAlwaysSuccess(err) == "success"
\* getStatus
getStatus(err) == IF err.isNil THEN "success" ELSE "failed"

\* result.Metadata["path"].(string): the assertion panics when the map holds
\* no string under "path"
PathAssertionPanics(metadata) == "path" \notin metadata

\* one iteration of `for i, result := range results`
BuildRecord ==
    /\ gpc = "build"
    /\ gi <= Len(gresults)
    /\ LET result == gresults[gi] IN
         IF PathAssertionPanics(result.Metadata)
         THEN /\ gpanic' = TRUE
              /\ gpc' = "panicked"
              /\ UNCHANGED <<gi, grecords>>
         ELSE /\ grecords' = Append(grecords,
                                [Status |-> getStatus(result.Error),
                                 ErrorMessage |-> IF result.Error.isNil THEN <<>>
                                                  ELSE result.Error.text])
              /\ gi' = gi + 1
              /\ UNCHANGED <<gpanic, gpc>>
    /\ DatasetFrame
    /\ UNCHANGED <<gresults, gformat, gwritten>>

\* after the loop: generator.GenerateDataset(context.Background(), records)
\* dispatches on the format
GenerateDataset ==
    /\ gpc = "build"
    /\ gi > Len(gresults)
    /\ gpc' = gformat
    /\ gi' = 1
    /\ DatasetFrame
    /\ UNCHANGED <<gresults, gformat, grecords, gwritten, gpanic>>

\* encoding/json: one byte of a string
JSONEscape(ch) ==
    IF ch = Quote THEN <<"\\", Quote>>
    ELSE IF ch = InvalidByte THEN <<"\\", "u", "f", "f", "f", "d">>
    ELSE <<ch>>

\* encoding/json: the bytes of a string between its quotes
RECURSIVE JSONEscapeAll(_)
JSONEscapeAll(s) == IF s = <<>> THEN <<>> ELSE JSONEscape(Head(s)) \o JSONEscapeAll(Tail(s))

\* encoding/json: a string value
JSONString(s) == <<Quote>> \o JSONEscapeAll(s) \o <<Quote>>

\* the members status and error_message of an encoded Record (a status has
\* no byte that is escaped); error_message has omitempty
JSONRecord(record) ==
    [status |-> record.Status,
     has_error_message |-> record.ErrorMessage # <<>>,
     error_message |-> IF record.ErrorMessage # <<>> THEN JSONString(record.ErrorMessage)
                       ELSE <<>>]

\* generateJSON: one Encode of the document that holds all the records
GenerateJSON ==
    /\ gpc = "json"
    /\ gwritten' = [i \in DOMAIN grecords |-> JSONRecord(grecords[i])]
    /\ gpc' = "done"
    /\ DatasetFrame
    /\ UNCHANGED <<gresults, gformat, gi, grecords, gpanic>>

\* generateJSONL: one iteration of the loop; the context is
\* context.Background(), which is never done
GenerateJSONLLine ==
    /\ gpc = "jsonl"
    /\ gi <= Len(grecords)
    /\ gwritten' = Append(gwritten, JSONRecord(grecords[gi]))
    /\ gi' = gi + 1
    /\ DatasetFrame
    /\ UNCHANGED <<gresults, gformat, grecords, gpanic, gpc>>

\* encoding/csv: fieldNeedsQuotes, for fields made of the bytes above
FieldNeedsQuotes(field) ==
    \E i \in DOMAIN field : field[i] \in {Quote, Comma}

\* encoding/csv: the inside of a quoted field, each quote doubled
RECURSIVE CSVDoubleQuotes(_)
CSVDoubleQuotes(s) ==
    IF s = <<>> THEN <<>>
    ELSE (IF Head(s) = Quote THEN <<Quote, Quote>> ELSE <<Head(s)>>) \o CSVDoubleQuotes(Tail(s))

\* encoding/csv: one field as Writer.Write writes it
CSVField(field) ==
    IF FieldNeedsQuotes(field) THEN <<Quote>> \o CSVDoubleQuotes(field) \o <<Quote>>
    ELSE field

\* the columns status and error_message of a row
CSVRow(record) ==
    [status |-> record.Status,
     has_error_message |-> TRUE,
     error_message |-> CSVField(record.ErrorMessage)]

\* generateCSV: one iteration of the loop over the records
GenerateCSVRow ==
    /\ gpc = "csv"
    /\ gi <= Len(grecords)
    /\ gwritten' = Append(gwritten, CSVRow(grecords[gi]))
    /\ gi' = gi + 1
    /\ DatasetFrame
    /\ UNCHANGED <<gresults, gformat, grecords, gpanic, gpc>>

\* generateCSV / generateJSONL: the loop is over, the file is closed
GenerateReturn ==
    /\ gpc \in {"csv", "jsonl"}
    /\ gi > Len(grecords)
    /\ gpc' = "done"
    /\ DatasetFrame
    /\ UNCHANGED <<gresults, gformat, gi, grecords, gwritten, gpanic>>

(* ---- environment ---- *)
\* the clock advances; the histories forget the instants that left the
\* trailing window, which no window ending now or later contains.  Between
\* the return of RateLimiter.Wait (or the end of a backoff) and the start of
\* the external command DetectLabels does not block: no time passes there.
Tick ==
    /\ (now < MaxTime \/ (component = "fair" /\ \E c \in Callers : lpc[c] = "sleep" /\ now < lwake[c]))
    /\ \A w \in Workers : dpc[w] # "attempt"
    /\ now' = now + 1
    /\ lgrants' = SelectSeqKeep(lgrants, now' - window)
    /\ vgrants' = SelectSeqKeep(vgrants, now' - vwindow)
    /\ vexecs' = SelectSeqKeep(vexecs, now' - vwindow)
    /\ UNCHANGED <<ctxDone, rate, window, requests, lpc, lwake, lcalls, lslept, maxWaitTime,
                   lpanic,
                   rateLimit, maxRetries, initialBackoff, dstart, maxBackoff, vwindow, vrequests,
                   dpc, dlocalNow, dwake, dattempt, dcalls, dinvoked, dfails, derr, batchVars,
                   otherVars>>

\* the caller's context is cancelled
Cancel ==
    /\ ~ctxDone
    /\ ctxDone' = TRUE
    /\ UNCHANGED <<now, limiterVars, clientVars, batchVars, otherVars>>

(* ---- specification of rate.Limiter under concurrent callers ---- *)
InitLimiter ==
    /\ now = 0
    /\ ExtraIdle
    /\ ctxDone = FALSE
    /\ BackoffIdle
    /\ TrackerIdle
    /\ StatsIdle
    /\ LimiterInit
    /\ ClientIdle
    /\ BatchIdle

NextLimiter ==
    \/ Tick
    \/ Cancel
    \/ \E c \in Callers : LimiterCall(c)
    \/ \E c \in Callers : LimiterTryAcquire(c)
    \/ \E c \in Callers : LimiterWake(c)
    \/ \E c \in Callers : LimiterCancelled(c)

SpecLimiter == InitLimiter /\ [][NextLimiter]_vars

(* C1: for every rate R >= 1 and window W, under any interleaving of
   concurrent Wait calls on one rate.Limiter, no time window (t - W, t]
   contains more than R instants at which a Wait call was granted: at every
   instant the trailing window holds at most R grants. *)
C1_RateInvariant == InWindow(lgrants, now, window) <= rate

\* a caller that slept on a full window has been granted after re-validation,
\* while another caller was contending for the same slot
C1_Witness ==
    /\ Len(lgrants) = rate
    /\ \E c \in Callers : lpc[c] = "granted" /\ lslept[c]
    /\ \E c \in Callers : lpc[c] = "sleep" /\ lslept[c]

(* ---- specification of one vision.Client shared by concurrent workers ---- *)
InitClient ==
    /\ now = 0
    /\ ExtraIdle
    /\ ctxDone = FALSE
    /\ BackoffIdle
    /\ TrackerIdle
    /\ StatsIdle
    /\ LimiterIdle
    /\ ClientInit
    /\ BatchIdle

NextClient ==
    \/ Tick
    \/ Cancel
    \/ \E c \in Workers : WaitEnter(c)
    \/ \E c \in Workers : WaitWake(c)
    \/ \E c \in Workers : WaitCancelled(c)
    \/ \E c \in Workers : AttemptStart(c)
    \/ \E c \in Workers, o \in ExecOutcomes : ExecReturn(c, o)
    \/ \E c \in Workers : BackoffWake(c)
    \/ \E c \in Workers : BackoffCancelled(c)

SpecClient == InitClient /\ [][NextClient]_vars

(* C2: a caller of vision.RateLimiter.Wait that slept on a full window is
   not granted blindly on waking: under any interleaving of waiters woken
   for the same freed slot, no window (t - W, t] contains more than R
   instants at which this limiter granted a Wait call. *)
C2_NoBlindGrant ==
    [][\A c \in Workers : WaitWake(c) => InWindow(vgrants', now', vwindow) <= rateLimit]_vars

(* C3: the external annotator invocations (executeCommand calls, retries
   included) started by all workers sharing one Client within any window
   (t - W, t] never exceed the rate limit R. *)
C3_ExecRate == InWindow(vexecs, now, vwindow) <= rateLimit

(* ---- specification of one ProcessBatch call ---- *)
InitBatch ==
    /\ now = 0
    /\ ExtraIdle
    /\ ctxDone = FALSE
    /\ BackoffIdle
    /\ TrackerIdle
    /\ StatsIdle
    /\ LimiterIdle
    /\ ClientIdle
    /\ BatchInit

\* the context of the batch is cancelled while the batch runs
CancelBatch ==
    /\ mpc \in {"start", "gather"}
    /\ Cancel

BatchProgress ==
    \/ BatchStart
    \/ FeederSend
    \/ FeederCancelled
    \/ FeederDone
    \/ \E w \in PoolWorkers : WorkerRecv(w)
    \/ \E w \in PoolWorkers : WorkerExit(w)
    \/ \E w \in PoolWorkers : WorkerSelect(w)
    \/ \E w \in PoolWorkers, o \in PrepareOutcomes : PrepareImage(w, o)
    \/ \E w \in PoolWorkers, o \in DetectOutcomes : DetectAndSave(w, o)
    \/ \E w \in PoolWorkers : WorkerSend(w)
    \/ CloseResults
    \/ Gather
    \/ \E f \in BOOLEAN : Finish(f)

NextBatch == CancelBatch \/ BatchProgress

SpecBatch == InitBatch /\ [][NextBatch]_vars

\* the goroutine scheduler runs every goroutine that can take a step, and
\* every started Process call returns
SpecBatchFair == SpecBatch /\ WF_vars(BatchProgress)

\* the inputs on which Process has been invoked
Started == {i \in DOMAIN inputs : processed[i] >= 1}

\* the batch has returned and its context was never cancelled
CompletedUncancelled == mpc = "returned" /\ ~ctxDone

(* C4: ProcessBatch on N >= 1 inputs whose context is never cancelled
   returns exactly N outputs, for every pool size and every interleaving of
   the workers, whatever the mix of per-item successes and failures. *)
C4_Completeness == CompletedUncancelled => Len(outputs) = Len(inputs)

\* an uncancelled batch of several inputs on several workers has returned
\* with a failed and a successful output
C4_Witness ==
    /\ CompletedUncancelled
    /\ Len(inputs) >= 2 /\ poolSize >= 2
    /\ \E k \in DOMAIN outputs : outputs[k].Error # ""
    /\ \E k \in DOMAIN outputs : outputs[k].Error = ""

(* C5: every output returned by ProcessBatch carries the Filename of the
   input it was produced from, for successful and failed items alike. *)
C5_OutputsCarryIdentifier ==
    \A k \in DOMAIN outputs : outputs[k].Filename = inputs[outputs[k].src].Filename

(* C6: in any ProcessBatch run, cancelled or not, Process is invoked at most
   once per input; in a run that was not cancelled it is invoked exactly once
   per input. *)
C6_ProcessedOnce ==
    /\ \A i \in DOMAIN inputs : processed[i] <= 1
    /\ CompletedUncancelled => \A i \in DOMAIN inputs : processed[i] = 1

\* a cancelled batch has returned with one input processed and one never started
C6_Witness ==
    /\ mpc = "returned" /\ ctxDone
    /\ \E i \in DOMAIN inputs : processed[i] = 1
    /\ \E i \in DOMAIN inputs : processed[i] = 0

(* C7: every output, queued or returned, belongs to an input whose
   processing a worker started, no input has two outputs, and so the output
   count never exceeds the number of started inputs. *)
C7_NoFabricatedOutput ==
    LET all == outputs \o results IN
    /\ \A k \in DOMAIN all : all[k].src \in Started
    /\ \A k, l \in DOMAIN all : all[k].src = all[l].src => k = l
    /\ Len(all) <= Cardinality(Started)

\* a batch cancelled mid-way has returned fewer outputs than inputs, a worker
\* having dropped a job it dequeued after the cancellation
C7_Witness ==
    /\ mpc = "returned" /\ ctxDone
    /\ Len(outputs) >= 1
    /\ Len(outputs) < Len(inputs)
    /\ jobs = <<>> /\ fidx > Len(inputs)
    /\ \E i \in DOMAIN inputs : processed[i] = 0

(* C8: under fair scheduling, every started Process call returning,
   ProcessBatch eventually returns, whether or not the context is cancelled
   mid-batch. *)
C8_BatchReturns == <>(mpc = "returned")

\* a batch cancelled while workers were processing has returned
C8_Witness ==
    /\ mpc = "returned" /\ ctxDone
    /\ Len(inputs) >= 2
    /\ Len(outputs) >= 1
    /\ \E w \in PoolWorkers : wpc[w] = "exited"

(* C9: the error Process returned for an item is the Error field of that
   item's output, and a failed item does not keep any other input of an
   uncancelled batch from producing its own output. *)
C9_ErrorsCapturedPerItem ==
    LET all == outputs \o results IN
    /\ \A k \in DOMAIN all : all[k].Error = perr[all[k].src]
    /\ CompletedUncancelled =>
         \A i \in DOMAIN inputs : \E k \in DOMAIN outputs : outputs[k].src = i

\* an uncancelled batch has returned: its first input failed and a later
\* one succeeded
C9_Witness ==
    /\ CompletedUncancelled
    /\ Len(inputs) >= 2
    /\ perr[1] # ""
    /\ \E k \in DOMAIN outputs : outputs[k].src = 1 /\ outputs[k].Error = perr[1]
    /\ \E k \in DOMAIN outputs : outputs[k].src > 1 /\ outputs[k].Error = ""

(* C10: ProcessBatch returns a non-nil error only for a failure that occurs
   before any item starts: once an item has been processed the batch
   operation does not fail. *)
C10_OnlySetupErrors ==
    (mpc = "returned" /\ retErr # "") => Started = {}

(* C11: when the context of the batch is cancelled before every input has
   produced its output, ProcessBatch returns a non-nil error: it never
   returns a partial output set together with a nil error. *)
C11_CancelledBatchFails ==
    (mpc = "returned" /\ ctxDone /\ Len(outputs) < Len(inputs)) => retErr # ""

(* C12: one DetectLabels call invokes the external command at most
   MaxRetries + 1 times, the loop variable attempt never exceeds MaxRetries,
   and a call that returned without cancellation after every one of its
   invocations failed has made exactly MaxRetries + 1 invocations. *)
C12_AttemptBound ==
    \A c \in Workers :
        /\ dinvoked[c] <= maxRetries + 1
        /\ dattempt[c] <= maxRetries
        /\ (dpc[c] \in {"ok", "err", "exhausted", "failed"} /\ dfails[c] = dinvoked[c])
               => dinvoked[c] = maxRetries + 1

\* a call with MaxRetries = 2 has returned after three failed invocations
C12_Witness ==
    /\ maxRetries = 2
    /\ \E c \in Workers :
          dpc[c] = "exhausted" /\ dinvoked[c] = 3 /\ dfails[c] = 3 /\ dattempt[c] = 2

(* ---- specification of the backoff delays of one failing DetectLabels call ---- *)
InitBackoff ==
    /\ now = 0
    /\ ExtraIdle
    /\ ctxDone = FALSE
    /\ LimiterIdle
    /\ ClientIdle
    /\ BatchIdle
    /\ BackoffInit
    /\ TrackerIdle
    /\ StatsIdle

NextBackoff == BackoffStep

SpecBackoff == InitBackoff /\ [][NextBackoff]_vars

\* min(InitialBackoff * 2^(k-1), MaxBackoff) as an exact integer
ExactDelay(initial, maxb, k) ==
    LET p == Shl(Widen(initial), k - 1) IN
      IF Greater(p, Widen(maxb)) THEN Widen(maxb) ELSE p

(* C13: the delay waited before retry attempt k >= 1 equals
   min(InitialBackoff * 2^(k-1), MaxBackoff); with InitialBackoff = 1s and
   MaxBackoff = 32s the delays before attempts 1..6 are 1, 2, 4, 8, 16 and
   32 seconds. *)
C13_BackoffFormula ==
    bAttempt >= 1 =>
        /\ SignExtend(bDelay) = ExactDelay(bInitial, bMax, bAttempt)
        /\ (bInitial = Second /\ bMax = Times(Second, 32) /\ bAttempt <= 6)
              => bDelay = Times(Second, <<1, 2, 4, 8, 16, 32>>[bAttempt])

(* C14: DetectLabels returns a result that is not a cancellation only after
   a successful attempt or after all MaxRetries + 1 attempts failed, and on
   exhaustion the returned error wraps the error of the last attempt and
   states the number of attempts made. *)
C14_ResultAfterSuccessOrExhaustion ==
    \A c \in Workers :
        /\ dpc[c] \in {"err", "exhausted", "failed"} => dinvoked[c] = maxRetries + 1
        /\ dpc[c] = "exhausted" =>
              /\ derr[c].cause = CommandError.msg
              /\ derr[c].attempts = dinvoked[c]

(* C15: every attempt that fails, by a command failure, an unparsable
   response or a response carrying an API error, and that is not the last
   one allowed, is followed by the backoff wait that precedes the next
   attempt: no kind of failure ends the call early. *)
C15_AnyFailureRetried ==
    [][\A c \in Workers, o \in {"command_failed", "parse_error", "api_error"} :
          (ExecReturn(c, o) /\ dattempt[c] < maxRetries) => dpc'[c] = "backoff"]_vars

(* C16: once the context is cancelled no DetectLabels call starts another
   external invocation: a call that reaches the top of its loop, before its
   first attempt or after a backoff wait, returns the context's error at
   once, and every call that ended as cancelled returned that error. *)
C16_NoAttemptAfterCancel ==
    [][\A c \in Workers :
          /\ ctxDone => /\ dinvoked'[c] <= dinvoked[c]
                        /\ AttemptStart(c) => (dpc'[c] = "cancelled" /\ derr'[c] = CtxErr)
                        /\ BackoffCancelled(c) => derr'[c] = CtxErr
          /\ dpc'[c] = "cancelled" => CtxErr.msg \in {derr'[c].msg, derr'[c].cause}]_vars

\* a call was cancelled between two attempts: it made fewer invocations than
\* allowed, all failed, and returned the context's error
C16_Witness ==
    /\ ctxDone
    /\ \E c \in Workers :
          /\ dpc[c] = "cancelled" /\ derr[c] = CtxErr
          /\ dinvoked[c] >= 1 /\ dfails[c] = dinvoked[c] /\ dinvoked[c] <= maxRetries

(* ---- specification of one progress.Tracker ---- *)
InitTracker ==
    /\ now = 0
    /\ ExtraIdle
    /\ ctxDone = FALSE
    /\ LimiterIdle
    /\ ClientIdle
    /\ BatchIdle
    /\ BackoffIdle
    /\ TrackerInit
    /\ StatsIdle

NextTracker ==
    \/ TrackerStart
    \/ TickerFire
    \/ \E u \in Updaters, a \in UpdateArgs : UpdateCurrent(u, a)
    \/ \E u \in Updaters : UpdateFailed(u)
    \/ \E u \in Updaters : UpdateSkipped(u)
    \/ \E u \in Updaters : Increment(u)
    \/ \E u \in Updaters : IncrementFailed(u)
    \/ \E u \in Updaters : IncrementSkipped(u)
    \/ \E choice \in {"tick", "done"} : RendererSelect(choice)
    \/ \E g \in Displayers : DisplayBegin(g)
    \/ \E g \in Displayers : DisplayFailed(g)
    \/ \E g \in Displayers : DisplayEnd(g)
    \/ \E f \in Finishers : FinishStop(f)
    \/ \E f \in Finishers : FinishClose(f)

SpecTracker == InitTracker /\ [][NextTracker]_vars

(* C17: calling Finish twice on one tracker, one call after the other or
   from two goroutines, never faults, never writes a second final summary,
   and once both calls are over exactly one final summary has been written. *)
C17_FinishIdempotent ==
    /\ ~tpanic
    /\ summaries <= 1
    /\ (finishCalls = 2 /\ \A f \in Finishers : fpc[f] \in {"idle", "returned"})
          => summaries = 1

(* C18: under any sequence and interleaving of Update, Increment,
   IncrementFailed and IncrementSkipped calls no step lowers the tracker's
   current, failed or skipped counter. *)
C18_CountersNeverDecrease ==
    [][/\ tcurrent' >= tcurrent
       /\ tfailed' >= tfailed
       /\ tskipped' >= tskipped]_vars

(* ---- specification of one calculateStats call ---- *)
InitStats ==
    /\ now = 0
    /\ ExtraIdle
    /\ ctxDone = FALSE
    /\ LimiterIdle
    /\ ClientIdle
    /\ BatchIdle
    /\ BackoffIdle
    /\ TrackerIdle
    /\ StatsInit

NextStats == StatsLoop \/ StatsFinish

SpecStats == InitStats /\ [][NextStats]_vars

\* the positions of the records with the given status
WithStatus(status) == {i \in DOMAIN records : records[i].Status = status}

(* C19: for every list of records calculateStats returns SuccessfulCount,
   FailedCount and SkippedCount equal to the numbers of records whose status
   is success, failed and skipped, and TotalRecords equal to the length of
   the list; for the statuses success, success, failed it returns 2
   successes and 1 failure. *)
C19_StatsCounts ==
    spc = "done" =>
        /\ stats.SuccessfulCount = Cardinality(WithStatus("success"))
        /\ stats.FailedCount = Cardinality(WithStatus("failed"))
        /\ stats.SkippedCount = Cardinality(WithStatus("skipped"))
        /\ stats.TotalRecords = Len(records)
        /\ [i \in DOMAIN records |-> records[i].Status] = <<"success", "success", "failed">>
              => stats.SuccessfulCount = 2 /\ stats.FailedCount = 1

\* calculateStats has returned for records with statuses success, success, failed
C19_Witness ==
    /\ spc = "done"
    /\ [i \in DOMAIN records |-> records[i].Status] = <<"success", "success", "failed">>
    /\ stats.SuccessfulCount = 2 /\ stats.FailedCount = 1 /\ stats.SkippedCount = 0

\* the sum of Confidence over the records at the given positions
RECURSIVE SumConfidence(_)
SumConfidence(positions) ==
    IF positions = {} THEN 0
    ELSE LET i == CHOOSE j \in positions : TRUE IN
           records[i].Confidence + SumConfidence(positions \ {i})

(* C20: the AverageConfidence calculateStats returns is the mean of
   Confidence over the records with status success, and 0 when there is
   none: records with another status do not change it. *)
C20_MeanOverSuccesses ==
    spc = "done" =>
        LET succ == WithStatus("success")
            avg == stats.AverageConfidence
        IN IF succ = {} THEN avg.num = 0
           ELSE avg.num * Cardinality(succ) = SumConfidence(succ) * avg.den

(* ---- specification of one generateDataset call ---- *)
InitDataset ==
    /\ now = 0
    /\ ctxDone = FALSE
    /\ LimiterIdle
    /\ ClientIdle
    /\ BatchIdle
    /\ BackoffIdle
    /\ TrackerIdle
    /\ StatsIdle
    /\ component = "none"
    /\ held = {}
    /\ MutexIdle
    /\ DatasetInit

NextDataset ==
    \/ BuildRecord
    \/ GenerateDataset
    \/ GenerateJSON
    \/ GenerateJSONLLine
    \/ GenerateCSVRow
    \/ GenerateReturn

SpecDataset == InitDataset /\ [][NextDataset]_vars

\* reading back a JSON string: the text between the quotes, escapes undone
RECURSIVE JSONUnescape(_)
JSONUnescape(s) ==
    IF s = <<>> THEN <<>>
    ELSE IF Head(s) = "\\" /\ Len(s) >= 2 /\ s[2] = Quote
         THEN <<Quote>> \o JSONUnescape(SubSeq(s, 3, Len(s)))
    ELSE IF Head(s) = "\\" /\ Len(s) >= 6 /\ SubSeq(s, 2, 6) = <<"u", "f", "f", "f", "d">>
         THEN <<ReplacementRune>> \o JSONUnescape(SubSeq(s, 7, Len(s)))
    ELSE <<Head(s)>> \o JSONUnescape(Tail(s))

\* reading back a CSV field: doubled quotes of a quoted field undone
RECURSIVE CSVUndouble(_)
CSVUndouble(s) ==
    IF s = <<>> THEN <<>>
    ELSE IF Head(s) = Quote /\ Len(s) >= 2 /\ s[2] = Quote
         THEN <<Quote>> \o CSVUndouble(SubSeq(s, 3, Len(s)))
    ELSE <<Head(s)>> \o CSVUndouble(Tail(s))

\* the error message a reader of the dataset file finds in a written entry
ReadErrorMessage(entry) ==
    IF ~entry.has_error_message THEN <<>>
    ELSE LET f == entry.error_message IN
         IF gformat = "csv"
         THEN IF f # <<>> /\ Head(f) = Quote THEN CSVUndouble(SubSeq(f, 2, Len(f) - 1)) ELSE f
         ELSE JSONUnescape(SubSeq(f, 2, Len(f) - 1))

(* C21: generateDataset builds a record for every output: status failed and
   the error text as non-empty ErrorMessage when the output has an error,
   status success and an empty ErrorMessage when it has none; and the file
   written in each format (JSON, JSONL, CSV) holds that ErrorMessage
   unchanged. *)
C21_ErrorDetailPreserved ==
    /\ ~gpanic
    /\ gpc \in {"json", "csv", "jsonl", "done"} =>
          /\ Len(grecords) = Len(gresults)
          /\ \A i \in DOMAIN gresults :
                IF gresults[i].Error.isNil
                THEN grecords[i].Status = "success" /\ grecords[i].ErrorMessage = <<>>
                ELSE /\ grecords[i].Status = "failed"
                     /\ grecords[i].ErrorMessage # <<>>
                     /\ grecords[i].ErrorMessage = gresults[i].Error.text
    /\ gpc = "done" =>
          /\ Len(gwritten) = Len(grecords)
          /\ \A i \in DOMAIN grecords :
                /\ gwritten[i].status = grecords[i].Status
                /\ ReadErrorMessage(gwritten[i]) = grecords[i].ErrorMessage

(* ---- specification of a rate.Limiter built with any rate, whose ceiling
   is set at any time ---- *)
InitLimiterAPI ==
    /\ now = 0
    /\ ExtraIdle
    /\ ctxDone = FALSE
    /\ BackoffIdle
    /\ TrackerIdle
    /\ StatsIdle
    /\ NewLimiter
    /\ ClientIdle
    /\ BatchIdle

NextLimiterAPI ==
    \/ Tick
    \/ Cancel
    \/ \E d \in 0..MaxWindow : SetMaxWaitTime(d)
    \/ \E c \in Callers : LimiterCall(c)
    \/ \E c \in Callers : LimiterTryAcquire(c)
    \/ \E c \in Callers : LimiterWake(c)
    \/ \E c \in Callers : LimiterCancelled(c)

SpecLimiterAPI == InitLimiterAPI /\ [][NextLimiterAPI]_vars

(* C22: a rate below 1 is rejected at construction: NewLimiter yields no
   usable limiter whose rate is 0 or negative, so no Wait call is ever run
   against such a limiter. *)
C22_RateBelowOneRejected ==
    rate < 1 => \A c \in Callers : lpc[c] = "idle"

(* C23: when the delay tryAcquire computes for the next free slot exceeds
   maxWaitTime, Wait reports unavailability to its caller: it never goes to
   sleep for a delay above the ceiling. *)
C23_CeilingNotSlept ==
    [][\A c \in Callers :
          (lpc[c] = "try" /\ lpc'[c] = "sleep") => lwake'[c] - now <= maxWaitTime]_vars

(* ---- specification of a program that rate-limits with one of the two
   limiters: a rate.Limiter or the RateLimiter of a vision.Client ---- *)
InitWaits ==
    /\ now = 0
    /\ held = {}
    /\ MutexIdle
    /\ ctxDone = FALSE
    /\ DatasetIdle
    /\ BackoffIdle
    /\ TrackerIdle
    /\ StatsIdle
    /\ BatchIdle
    /\ \/ component = "limiter" /\ LimiterInit /\ ClientIdle
       \/ component = "client" /\ LimiterIdle /\ ClientInit

NextWaits ==
    \/ component = "limiter" /\ NextLimiter
    \/ component = "client" /\ NextClient

SpecWaits == InitWaits /\ [][NextWaits]_vars

(* C24: a Wait call blocked on a full window, whose context is cancelled
   before its timer fires, leaves the wait only by returning the context's
   cancellation error; and a Wait call that returns the cancellation error
   records no timestamp in the window (rate.Limiter.Wait and
   vision.RateLimiter.Wait). *)
C24_CancelledWaitRecordsNothing ==
    [][/\ \A c \in Callers :
            /\ (lpc[c] = "sleep" /\ ctxDone /\ now < lwake[c])
                   => lpc'[c] \in {"sleep", "cancelled"}
            /\ (lpc[c] = "sleep" /\ lpc'[c] = "cancelled")
                   => ctxDone /\ requests' = requests /\ lgrants' = lgrants
       /\ \A c \in Workers :
            /\ (dpc[c] = "vsleep" /\ ctxDone /\ now < dwake[c])
                   => dpc'[c] \in {"vsleep", "cancelled"}
            /\ (dpc[c] = "vsleep" /\ dpc'[c] = "cancelled")
                   => /\ ctxDone
                      /\ derr'[c].cause = CtxErr.msg
                      /\ vrequests' = vrequests /\ vgrants' = vgrants]_vars

\* a Wait call of the rate.Limiter that slept on a full window has returned
\* the cancellation error, and the window holds only the grants made
C24_Witness ==
    /\ component = "limiter"
    /\ ctxDone
    /\ \E c \in Callers : lpc[c] = "cancelled"
    /\ Len(requests) = rate
    /\ requests = lgrants

(* C25: every ProcessBatch call made with DeleteTempFiles enabled invokes
   tempManager.Cleanup exactly once, at the end of the batch when every
   worker has exited, whatever the number of inputs and whether or not the
   batch was cancelled. *)
C25_CleanupExactlyOnce ==
    /\ cleanups <= 1
    /\ cleanups = 1 => wgCount = 0 /\ \A w \in PoolWorkers : wpc[w] \in {"absent", "exited"}
    /\ (mpc = "returned" /\ deleteTempFiles) => cleanups = 1

(* C26: whenever a limiter inspects its window for an admission decision,
   or admits a call after a sleep, the window it keeps holds no timestamp
   older than (now - W): every timestamp that counts against the rate or
   stays stored lies within the trailing window (rate.Limiter.tryAcquire
   and vision.RateLimiter.Wait). *)
C26_WindowHoldsNoExpired ==
    [][/\ \A c \in Callers :
            (lpc[c] = "try" /\ lpc'[c] # "try")
               => \A k \in DOMAIN requests' : requests'[k] >= now - window
       /\ \A c \in Workers :
            (WaitEnter(c) \/ WaitWake(c))
               => \A k \in DOMAIN vrequests' : vrequests'[k] >= now - vwindow]_vars

(* C27: once Start has run, the total the tracker holds (what GetStatus
   returns as Total and every render loads) is the total passed to
   NewTracker, whatever Update and the Increment operations do. *)
C27_TotalIsConstructionTotal ==
    rpc # "absent" => ttotal = totalArg

(* C28: each render of the Tracker (periodic line or final summary) shows a
   consistent snapshot: the values of current, failed and skipped it
   displays were all held by the counters at one single moment of the
   render, under any interleaving with Update and Increment calls. *)
C28_ConsistentSnapshot ==
    [][\A g \in Displayers :
          DisplayEnd(g) => <<snap[g].current, snap[g].failed, tskipped>> \in held]_vars

(* C29: every annotation attempt of DetectLabels is bounded by the
   configured per-call timeout, whatever the batch context does: no
   executeCommand is still running more than Timeout after its start. *)
C29_AttemptBoundedByTimeout ==
    \A c \in Workers : dpc[c] = "exec" => now - dstart[c] <= Timeout

\* the steps of the per-item pipeline, in order
Pipeline == <<"validate", "prepare", "acquire", "annotate">>

(* C30: the steps run on an item are, in this order, validate, prepare,
   rate-limiter acquire, annotate; an item that fails validation fails at
   once with the validation error: it is never prepared (no temp file is
   made for it), takes no rate-limiter slot, makes no annotate call, and
   Process is not invoked on it again. *)
C30_PipelineOrder ==
    \A i \in DOMAIN inputs :
       /\ Len(psteps[i]) <= Len(Pipeline)
       /\ psteps[i] = SubSeq(Pipeline, 1, Len(psteps[i]))
       /\ processed[i] <= 1
       /\ validateInput(inputs[i]) # "" =>
             /\ Len(psteps[i]) <= 1
             /\ i \notin tmpFiles
             /\ Len(psteps[i]) = 1 => perr[i] = validateInput(inputs[i])

\* a batch has returned in which one item failed validation, and has run
\* the step validate only, and another went through the whole pipeline
C30_Witness ==
    /\ mpc = "returned"
    /\ \E i \in DOMAIN inputs :
          validateInput(inputs[i]) # "" /\ psteps[i] = <<"validate">> /\ perr[i] # ""
    /\ \E i \in DOMAIN inputs : psteps[i] = Pipeline

(* C31: the results channel is closed only after every worker has exited and
   ProcessBatch returns only after that: no worker ever sends on the closed
   channel, and every output a worker produced is in the returned set. *)
C31_CloseAfterWorkers ==
    /\ \A w \in PoolWorkers : wpc[w] # "panicked"
    /\ resultsClosed => \A w \in PoolWorkers : wpc[w] \in {"absent", "exited"}
    /\ (mpc = "returned" /\ Len(inputs) > 0) =>
          /\ resultsClosed /\ results = <<>>
          /\ \A i \in Started : \E k \in DOMAIN outputs : outputs[k].src = i

\* a batch run by two workers has returned the outputs of both its inputs
\* after the channel was closed
C31_Witness ==
    /\ mpc = "returned" /\ resultsClosed
    /\ poolSize = 2 /\ Len(inputs) = 2
    /\ Started = DOMAIN inputs
    /\ Len(outputs) = 2

\* the worker goroutines started so far, and those that hold an item
WorkerGoroutines == {w \in PoolWorkers : wpc[w] # "absent"}
Processing == {w \in PoolWorkers : wpc[w] \in {"select", "prepare", "detect", "send"}}

(* C32: during a ProcessBatch run at most PoolSize items are processed at the
   same time, and the pool started for the batch has exactly PoolSize worker
   goroutines, whatever the number of inputs; none is added later. *)
C32_FixedPool ==
    /\ Cardinality(Processing) <= poolSize
    /\ Cardinality(WorkerGoroutines) <= poolSize
    /\ (mpc \in {"gather", "returned"} /\ Len(inputs) > 0) =>
          Cardinality(WorkerGoroutines) = poolSize

\* a batch of one input on a pool of two: one worker holds the item, the
\* other worker exists and waits for a job
C32_Witness ==
    /\ poolSize = 2 /\ Len(inputs) = 1
    /\ \E w \in PoolWorkers : wpc[w] = "detect"
    /\ \E w \in PoolWorkers : wpc[w] = "recv"

(* C33: once the batch context is cancelled the feeder enqueues no further
   input, and no item begins processing: a worker that dequeues a job after
   the cancellation exits without calling Process on it. *)
C33_NoDispatchAfterCancel ==
    [][ctxDone => /\ fidx' = fidx
                  /\ \A i \in DOMAIN inputs : processed'[i] = processed[i]]_vars

\* a step of Update, Increment, IncrementFailed or IncrementSkipped
UpdaterStep == tops' # tops \/ upc' # upc
\* a step of Increment
IncrementStep ==
    /\ tops' = tops + 1 /\ upc' = upc
    /\ tfailed' = tfailed /\ tskipped' = tskipped

(* C34: Update, Increment, IncrementFailed and IncrementSkipped never take the
   tracker's mutex: whoever holds it, each of them can run and complete, and
   every Increment raises current by exactly one, so n of them raise it by n. *)
C34_UpdatesNeverBlock ==
    /\ [](\A u \in Updaters :
            /\ (~tpanic /\ upc[u] = "idle" /\ tops < MaxTrackerOps) =>
                  /\ \A a \in UpdateArgs : ENABLED UpdateCurrent(u, a)
                  /\ tcurrent < MaxCount => ENABLED Increment(u)
                  /\ tfailed < MaxCount => ENABLED IncrementFailed(u)
                  /\ tskipped < MaxCount => ENABLED IncrementSkipped(u)
            /\ (~tpanic /\ upc[u] = "failed") => ENABLED UpdateFailed(u)
            /\ (~tpanic /\ upc[u] = "skipped") => ENABLED UpdateSkipped(u))
    /\ [][UpdaterStep => tmu' = tmu]_vars
    /\ [][IncrementStep => tcurrent' = tcurrent + 1]_vars

\* while a render holds the mutex the current counter has been raised twice
C34_Witness ==
    /\ tmu # ""
    /\ \E a, b, c \in held : b[1] = a[1] + 1 /\ c[1] = b[1] + 1

(* C35: once Finish has written the final summary the renderer goroutine
   writes no further progress line, however a pending tick and the closing
   of the done channel interleave. *)
C35_NoLineAfterSummary == ~lineAfterSummary

(* ---- the mutex of the two limiters, statement by statement ---- *)
\* what the statements of the two Wait functions leave alone
MutexFrame ==
    UNCHANGED <<lpc, lwake, lslept, maxWaitTime, lpanic, lgrants, maxRetries,
                initialBackoff, maxBackoff, dpc, dlocalNow, dwake, dattempt, vgrants,
                vexecs, dinvoked, dfails, derr, dstart, batchVars, backoffVars,
                trackerVars, statsVars, datasetVars, component, held>>

\* mutant: RateLimiter.Wait goes to sleep without unlocking
UnlockForWaitMissing(holder) == holder
\* RateLimiter.Wait: `r.mu.Unlock()` before the select: the holder afterwards
UnlockForWait(holder) == 0

\* a caller enters Limiter.Wait or RateLimiter.Wait
MutexCall(c) ==
    /\ ~mufault
    /\ mupc[c] \in {"idle", "returned"}
    /\ IF component = "limiter"
       THEN lcalls < MaxCalls /\ lcalls' = lcalls + 1 /\ UNCHANGED dcalls
       ELSE dcalls < MaxDetectCalls /\ dcalls' = dcalls + 1 /\ UNCHANGED lcalls
    /\ mupc' = [mupc EXCEPT ![c] = "lock"]
    /\ MutexFrame
    /\ UNCHANGED <<now, ctxDone, rate, window, requests, rateLimit, vwindow, vrequests,
                   mu, mubal, munow, muwake, mufault>>

\* l.mu.Lock() of tryAcquire, r.mu.Lock() of RateLimiter.Wait: blocks while
\* the mutex is held
MutexLock(c) ==
    /\ ~mufault
    /\ mupc[c] = "lock"
    /\ mu = 0
    /\ mu' = c
    /\ mubal' = [mubal EXCEPT ![c] = @ + 1]
    /\ mupc' = [mupc EXCEPT ![c] = "locked"]
    /\ MutexFrame
    /\ UNCHANGED <<now, ctxDone, rate, window, requests, lcalls, rateLimit, vwindow,
                   vrequests, dcalls, munow, muwake, mufault>>

\* tryAcquire between Lock and the return statement: the deferred Unlock is
\* still to run
TryAcquireLocked(c) ==
    /\ ~mufault
    /\ component = "limiter"
    /\ mupc[c] = "locked"
    /\ LET kept == Prune(requests, now, window) IN
         IF Allow(kept, rate)
         THEN /\ requests' = Append(kept, now)
              /\ mupc' = [mupc EXCEPT ![c] = "unlock_return"]
              /\ UNCHANGED muwake
         ELSE IF kept = <<>>
         THEN /\ requests' = kept
              /\ mupc' = [mupc EXCEPT ![c] = "unlock_panic"]
              /\ UNCHANGED muwake
         ELSE /\ requests' = kept
              /\ muwake' = [muwake EXCEPT ![c] =
                              now + AfterDelay(Delay(kept, now, window), maxWaitTime).delay]
              /\ mupc' = [mupc EXCEPT ![c] = "unlock_select"]
    /\ MutexFrame
    /\ UNCHANGED <<now, ctxDone, rate, window, lcalls, rateLimit, vwindow, vrequests,
                   dcalls, mu, mubal, munow, mufault>>

\* Limiter.Wait: the select between ctx.Done() and time.After(delay)
LimiterSelect(c, choice) ==
    /\ ~mufault
    /\ component = "limiter"
    /\ mupc[c] = "select"
    /\ \/ /\ choice = "timer"
          /\ now >= muwake[c]
          /\ mupc' = [mupc EXCEPT ![c] = "lock"]
       \/ /\ choice = "done"
          /\ ctxDone
          /\ mupc' = [mupc EXCEPT ![c] = "returned"]
    /\ muwake' = [muwake EXCEPT ![c] = 0]
    /\ MutexFrame
    /\ UNCHANGED <<now, ctxDone, rate, window, requests, lcalls, rateLimit, vwindow,
                   vrequests, dcalls, mu, mubal, munow, mufault>>

\* RateLimiter.Wait between Lock and the select or "Record request":
\* r.requests[0] panics when the slice is empty
RateLimiterLocked(c) ==
    /\ ~mufault
    /\ component = "client"
    /\ mupc[c] = "locked"
    /\ munow' = [munow EXCEPT ![c] = now]
    /\ LET kept == DropLeadingBefore(vrequests, now - vwindow) IN
         /\ vrequests' = kept
         /\ IF Len(kept) >= rateLimit /\ kept = <<>>
            THEN /\ mupc' = [mupc EXCEPT ![c] = "unlock_panic"]
                 /\ UNCHANGED <<mu, mubal, muwake>>
            ELSE IF MustWait(kept, rateLimit, now, vwindow)
            THEN /\ mu' = UnlockForWait(mu)
                 /\ mubal' = [mubal EXCEPT ![c] = IF mu' = 0 THEN @ - 1 ELSE @]
                 /\ muwake' = [muwake EXCEPT ![c] = now + ((kept[1] + vwindow) - now)]
                 /\ mupc' = [mupc EXCEPT ![c] = "select"]
            ELSE /\ mupc' = [mupc EXCEPT ![c] = "record"]
                 /\ UNCHANGED <<mu, mubal, muwake>>
    /\ MutexFrame
    /\ UNCHANGED <<now, ctxDone, rate, window, requests, lcalls, rateLimit, vwindow,
                   dcalls, mufault>>

\* RateLimiter.Wait: the select, and the r.mu.Lock() of the case taken
RateLimiterSelect(c, choice) ==
    /\ ~mufault
    /\ component = "client"
    /\ mupc[c] = "select"
    /\ \/ /\ choice = "timer"
          /\ now >= muwake[c]
          /\ mupc' = [mupc EXCEPT ![c] = "record"]
       \/ /\ choice = "done"
          /\ ctxDone
          /\ mupc' = [mupc EXCEPT ![c] = "unlock_return"]
    /\ mu = 0
    /\ mu' = c
    /\ mubal' = [mubal EXCEPT ![c] = @ + 1]
    /\ muwake' = [muwake EXCEPT ![c] = 0]
    /\ MutexFrame
    /\ UNCHANGED <<now, ctxDone, rate, window, requests, lcalls, rateLimit, vwindow,
                   vrequests, dcalls, munow, mufault>>

\* RateLimiter.Wait: "Record request": r.requests = append(r.requests, now)
RateLimiterRecord(c) ==
    /\ ~mufault
    /\ component = "client"
    /\ mupc[c] = "record"
    /\ vrequests' = Append(vrequests, munow[c])
    /\ mupc' = [mupc EXCEPT ![c] = "unlock_return"]
    /\ MutexFrame
    /\ UNCHANGED <<now, ctxDone, rate, window, requests, lcalls, rateLimit, vwindow,
                   dcalls, mu, mubal, munow, muwake, mufault>>

\* the deferred Unlock of tryAcquire and of RateLimiter.Wait, run on return
\* and on panic; unlocking an unlocked mutex is a fatal error
DeferredUnlock(c) ==
    /\ ~mufault
    /\ mupc[c] \in {"unlock_return", "unlock_select", "unlock_panic"}
    /\ IF mu = 0
       THEN /\ mufault' = TRUE
            /\ UNCHANGED <<mu, mubal, mupc>>
       ELSE /\ mu' = 0
            /\ mubal' = [mubal EXCEPT ![c] = @ - 1]
            /\ mupc' = [mupc EXCEPT ![c] =
                          CASE mupc[c] = "unlock_return" -> "returned"
                            [] mupc[c] = "unlock_select" -> "select"
                            [] mupc[c] = "unlock_panic" -> "panicked"]
            /\ UNCHANGED mufault
    /\ MutexFrame
    /\ UNCHANGED <<now, ctxDone, rate, window, requests, lcalls, rateLimit, vwindow,
                   vrequests, dcalls, munow, muwake>>

\* the limiter as constructed, no Wait call begun
MutexInit ==
    /\ mu = 0
    /\ mupc = [c \in Callers |-> "idle"]
    /\ mubal = [c \in Callers |-> 0]
    /\ munow = [c \in Callers |-> 0]
    /\ muwake = [c \in Callers |-> 0]
    /\ mufault = FALSE

InitMutex ==
    /\ now = 0
    /\ held = {}
    /\ ctxDone = FALSE
    /\ DatasetIdle
    /\ BackoffIdle
    /\ TrackerIdle
    /\ StatsIdle
    /\ BatchIdle
    /\ MutexInit
    /\ \/ component = "limiter" /\ LimiterInit /\ ClientIdle
       \/ component = "client" /\ LimiterIdle /\ ClientInit

NextMutex ==
    \/ \E c \in Callers : MutexCall(c)
    \/ \E c \in Callers : MutexLock(c)
    \/ \E c \in Callers : TryAcquireLocked(c)
    \/ \E c \in Callers, choice \in {"timer", "done"} : LimiterSelect(c, choice)
    \/ \E c \in Callers : RateLimiterLocked(c)
    \/ \E c \in Callers, choice \in {"timer", "done"} : RateLimiterSelect(c, choice)
    \/ \E c \in Callers : RateLimiterRecord(c)
    \/ \E c \in Callers : DeferredUnlock(c)
    \/ Tick
    \/ Cancel

SpecMutex == InitMutex /\ [][NextMutex]_vars

\* the positions of Wait at which the caller is between a Lock and its Unlock
\* and does not block
LockedSection == {"locked", "record", "unlock_return", "unlock_select", "unlock_panic"}

(* C36: no caller of rate.Limiter.Wait or of vision.RateLimiter.Wait holds the
   limiter's mutex while it sleeps: whoever holds the mutex is in a section
   that does not block, so a sleeping caller never keeps another one from the
   window; and every Lock is followed by exactly one Unlock on every return
   path. *)
C36_NoLockAcrossSleep ==
    /\ ~mufault
    /\ \A c \in Callers :
         /\ mupc[c] = "select" => (mu # c /\ mubal[c] = 0)
         /\ mupc[c] \in {"idle", "returned", "panicked"} => (mu # c /\ mubal[c] = 0)
         /\ mubal[c] \in {0, 1}
         /\ (mu = c) <=> (mubal[c] = 1)
    /\ mu # 0 => mupc[mu] \in LockedSection

\* a caller of RateLimiter.Wait sleeps on the full window while another
\* caller holds the mutex and inspects the window
C36_Witness ==
    /\ component = "client"
    /\ \E c, d \in Callers : mupc[c] = "select" /\ mu = d /\ mupc[d] = "locked"

\* the timestamps of s never decrease from one entry to the next
NonDecreasing(s) == \A k \in 1..(Len(s) - 1) : s[k] <= s[k + 1]

(* C37: the grant timestamps a limiter keeps are always in non-decreasing
   order, its first element being the oldest grant, for rate.Limiter and for
   vision.RateLimiter, under concurrent callers and for callers that record
   their grant after having slept. *)
C37_WindowOrdered == NonDecreasing(requests) /\ NonDecreasing(vrequests)

(* C38: when the context is cancelled while an external attempt is in flight
   and the attempt fails, DetectLabels does not report a retry exhaustion and
   does not start another attempt, whichever attempt it was: it leaves the
   attempt for the wait in which it returns the context's error. *)
C38_InFlightCancelEndsCancelled ==
    [][\A c \in Workers :
          (dpc[c] = "exec" /\ ctxDone /\ dfails'[c] > dfails[c])
             => /\ dpc'[c] \in {"backoff", "cancelled"}
                /\ dpc'[c] = "cancelled" => derr'[c] = CtxErr]_vars

(* C39: for every attempt index the delay InitialBackoff * (1 << attempt),
   computed in 64-bit signed arithmetic and capped at MaxBackoff, lies
   between InitialBackoff and MaxBackoff and never decreases from one attempt
   to the next: the multiplication never wraps around. *)
C39_DelayBoundedMonotone ==
    /\ [](bAttempt >= 1 => (~Greater(bInitial, bDelay) /\ ~Greater(bDelay, bMax)))
    /\ [][bAttempt >= 1 => ~Greater(bDelay, bDelay')]_vars

(* ---- specification of rate.Limiter under a fair scheduler and a clock
   that keeps running while a caller sleeps on its timer ---- *)
InitLimiterFair ==
    /\ now = 0
    /\ held = {}
    /\ MutexIdle
    /\ DatasetIdle
    /\ component = "fair"
    /\ ctxDone = FALSE
    /\ LimiterInit
    /\ ClientIdle
    /\ BatchIdle
    /\ BackoffIdle
    /\ TrackerIdle
    /\ StatsIdle

\* time passes, every goroutine that can take a step is run, and a timer
\* that has expired is delivered
SpecLimiterFair ==
    /\ InitLimiterFair
    /\ [][NextLimiter]_vars
    /\ WF_vars(Tick)
    /\ \A c \in Callers : WF_vars(LimiterTryAcquire(c)) /\ WF_vars(LimiterWake(c))

(* C40: with finitely many Wait calls on one rate.Limiter of rate R >= 1,
   time advancing and a fair scheduler, every call whose context is not
   cancelled is eventually granted: the loop of Wait never keeps a caller
   waiting forever. *)
C40_EventuallyGranted ==
    \A c \in Callers :
        (lpc[c] \in {"try", "sleep"}) ~> (lpc[c] = "granted" \/ ctxDone)

\* every caller has been granted without any cancellation, one of them
\* after having slept on the full window past the end of the bounded clock
C40_Witness ==
    /\ ~ctxDone
    /\ now > MaxTime
    /\ \A c \in Callers : lpc[c] = "granted"
    /\ \E c \in Callers : lslept[c]

====
